---- MODULE Spec2Model ----
(***************************************************************************)
(* Model of the instrument REPL of tsp-toolkit-kic-cli:                    *)
(*   - the read-state machine   (instrument-repl/src/state_machine.rs)     *)
(*   - the action derivation    (instrument-repl/src/repl.rs state_action) *)
(*   - the dispatcher loop, the error-fetch loop and the user-input thread *)
(*     (instrument-repl/src/repl.rs start, handle_data, get_errors,        *)
(*      init_user_input)                                                   *)
(*                                                                         *)
(* state_machine.rs in the source tree is the variant with the             *)
(* BinaryDataRead states; the node-capture rows and columns that repl.rs   *)
(* refers to (NodeDataReadStart/Continue/End, NodeStart, NodeEnd) are not  *)
(* in that file and are taken from the transition table of the             *)
(* specification (next_state_node).                                        *)
(***************************************************************************)
EXTENDS Integers, Sequences, FiniteSets, TLC

(***************************************************************************)
(* Bounds                                                                  *)
(***************************************************************************)
\* frames tokenized out of one instrument read
MaxFrames == 2
\* requests the input thread may send in one run that explores the user side
MaxSends == 2
\* requests the input thread may send in one run that explores the
\* instrument side
MaxSendsFew == 1
\* error records accumulated by one error fetch
MaxErrRecords == 1
\* max_attempts of clear_output_queue (5000 at its call, repl.rs:189)
MaxAttempts == 3
\* bytes returned by one read of clear_output_queue (at most 512, repl.rs:75)
MaxChunk == 2
\* frames whose wire forms make up one instrument buffer
MaxPieces == 3
\* instrument reads over which one buffer may arrive
MaxReads == 2
\* frames threaded through next_state in one run
MaxThread == 4

(***************************************************************************)
(* Frames (ParsedResponse) and read states (ReadState)                     *)
(***************************************************************************)
PayloadKinds == {"TspError", "Data", "BinaryData"}

\* variants of ParsedResponse matched by next_state in state_machine.rs
SrcKinds ==
    {"Prompt", "PromptWithError", "TspErrorStart", "TspError", "TspErrorEnd",
     "Data", "BinaryData", "ProgressIndicator"}

\* variants of ParsedResponse in instrument.rs
WireKinds ==
    {"Prompt", "PromptWithError", "TspErrorStart", "TspError", "TspErrorEnd",
     "Data", "ProgressIndicator", "NodeStart", "NodeEnd"}

NodeKinds == {"NodeStart", "NodeEnd"}

Frame(k, p) == [kind |-> k, arg |-> p]

FramesOf(kinds) ==
    {Frame(k, 0) : k \in kinds} \cup {Frame(k, 1) : k \in kinds \cap PayloadKinds}

\* the variants of ReadState in state_machine.rs
SrcStates ==
    {"Init", "TextDataReadStart", "TextDataReadContinue",
     "BinaryDataReadStart", "BinaryDataReadContinue",
     "DataReadEnd", "DataReadEndPendingError",
     "ErrorReadStart", "ErrorReadContinue", "ErrorReadEnd", "FileLoading"}

\* the node-capture variants of ReadState used by repl.rs
NodeStates == {"NodeDataReadStart", "NodeDataReadContinue", "NodeDataReadEnd"}

AllStates == SrcStates \cup NodeStates

AllFrames == FramesOf(SrcKinds \cup NodeKinds)

\* Result<ReadState>
Ok(s) == [ok |-> TRUE, state |-> s]

TransitionErr(s, f) == [ok |-> FALSE, state |-> s, input |-> f]

(***************************************************************************)
(* ReadState::next_state, state_machine.rs:50-182.  One operator per       *)
(* "Transitions from ..." block of the match, one CASE arm per match arm;   *)
(* OTHER is the block's share of the "Erroneous transitions that require    *)
(* recovery" arm (lines 137-179).  Arms written Ok(self) return s.          *)
(***************************************************************************)
\* the block of Init with an error record accepted before the start of its
\* dump
from_Init_errcontinue(s, f) ==
    CASE f.kind = "Prompt" -> Ok("DataReadEnd")
      [] f.kind = "PromptWithError" -> Ok("DataReadEndPendingError")
      [] f.kind = "TspErrorStart" -> Ok("ErrorReadStart")
      [] f.kind = "TspError" -> Ok("ErrorReadContinue")
      [] f.kind = "Data" -> Ok("TextDataReadStart")
      [] f.kind = "BinaryData" -> Ok("BinaryDataReadStart")
      [] f.kind = "ProgressIndicator" -> Ok("FileLoading")
      [] OTHER -> TransitionErr(s, f)

\* state_machine.rs lines 55-60, 137-138
from_Init(s, f) ==
    CASE f.kind = "Prompt" -> Ok("DataReadEnd")
      [] f.kind = "PromptWithError" -> Ok("DataReadEndPendingError")
      [] f.kind = "TspErrorStart" -> Ok("ErrorReadStart")
      [] f.kind = "Data" -> Ok("TextDataReadStart")
      [] f.kind = "BinaryData" -> Ok("BinaryDataReadStart")
      [] f.kind = "ProgressIndicator" -> Ok("FileLoading")
      [] OTHER -> TransitionErr(s, f)

\* state_machine.rs lines 63-67, 140-142
from_TextDataReadStart(s, f) ==
    CASE f.kind = "Prompt" -> Ok("DataReadEnd")
      [] f.kind = "PromptWithError" -> Ok("DataReadEndPendingError")
      [] f.kind = "TspErrorStart" -> Ok("ErrorReadStart")
      [] f.kind = "Data" -> Ok("TextDataReadContinue")
      [] f.kind = "ProgressIndicator" -> Ok("FileLoading")
      [] OTHER -> TransitionErr(s, f)

\* from_TextDataReadContinue with the TspErrorStart arm its neighbours have
from_TextDataReadContinue_errstart(s, f) ==
    CASE f.kind = "Prompt" -> Ok("DataReadEnd")
      [] f.kind = "PromptWithError" -> Ok("DataReadEndPendingError")
      [] f.kind = "TspErrorStart" -> Ok("ErrorReadStart")
      [] f.kind = "Data" -> Ok(s)
      [] f.kind = "ProgressIndicator" -> Ok("FileLoading")
      [] OTHER -> TransitionErr(s, f)

\* state_machine.rs lines 70-73, 144-147
from_TextDataReadContinue(s, f) ==
    CASE f.kind = "Prompt" -> Ok("DataReadEnd")
      [] f.kind = "PromptWithError" -> Ok("DataReadEndPendingError")
      [] f.kind = "Data" -> Ok(s)
      [] f.kind = "ProgressIndicator" -> Ok("FileLoading")
      [] OTHER -> TransitionErr(s, f)

\* state_machine.rs lines 76-81, 149-150
from_BinaryDataReadStart(s, f) ==
    CASE f.kind = "Prompt" -> Ok("DataReadEnd")
      [] f.kind = "PromptWithError" -> Ok("DataReadEndPendingError")
      [] f.kind = "TspErrorStart" -> Ok(s)
      [] f.kind = "BinaryData" -> Ok("BinaryDataReadContinue")
      [] f.kind = "Data" -> Ok("BinaryDataReadContinue")
      [] f.kind = "ProgressIndicator" -> Ok("FileLoading")
      [] OTHER -> TransitionErr(s, f)

\* state_machine.rs lines 84-89, 152-153
from_BinaryDataReadContinue(s, f) ==
    CASE f.kind = "Prompt" -> Ok("DataReadEnd")
      [] f.kind = "PromptWithError" -> Ok("DataReadEndPendingError")
      [] f.kind = "TspErrorStart" -> Ok("ErrorReadStart")
      [] f.kind = "BinaryData" -> Ok(s)
      [] f.kind = "Data" -> Ok(s)
      [] f.kind = "ProgressIndicator" -> Ok("FileLoading")
      [] OTHER -> TransitionErr(s, f)

\* the block of DataReadEnd with the prompt resetting the state to Init
from_DataReadEnd_reset(s, f) ==
    CASE f.kind = "Prompt" -> Ok("Init")
      [] f.kind = "PromptWithError" -> Ok("DataReadEndPendingError")
      [] f.kind = "TspErrorStart" -> Ok("ErrorReadStart")
      [] f.kind = "Data" -> Ok("TextDataReadStart")
      [] f.kind = "BinaryData" -> Ok("BinaryDataReadStart")
      [] f.kind = "ProgressIndicator" -> Ok("FileLoading")
      [] OTHER -> TransitionErr(s, f)

\* state_machine.rs lines 92-97, 155-156
from_DataReadEnd(s, f) ==
    CASE f.kind = "Prompt" -> Ok(s)
      [] f.kind = "PromptWithError" -> Ok("DataReadEndPendingError")
      [] f.kind = "TspErrorStart" -> Ok("ErrorReadStart")
      [] f.kind = "Data" -> Ok("TextDataReadStart")
      [] f.kind = "BinaryData" -> Ok("BinaryDataReadStart")
      [] f.kind = "ProgressIndicator" -> Ok("FileLoading")
      [] OTHER -> TransitionErr(s, f)

\* state_machine.rs lines 100-105, 158-159
from_DataReadEndPendingError(s, f) ==
    CASE f.kind = "Prompt" -> Ok("DataReadEnd")
      [] f.kind = "PromptWithError" -> Ok("DataReadEndPendingError")
      [] f.kind = "TspErrorStart" -> Ok("ErrorReadStart")
      [] f.kind = "Data" -> Ok("TextDataReadStart")
      [] f.kind = "BinaryData" -> Ok("BinaryDataReadStart")
      [] f.kind = "ProgressIndicator" -> Ok("FileLoading")
      [] OTHER -> TransitionErr(s, f)

\* state_machine.rs lines 108-110, 161-165
from_ErrorReadStart(s, f) ==
    CASE f.kind = "TspError" -> Ok("ErrorReadContinue")
      [] f.kind = "TspErrorEnd" -> Ok("ErrorReadEnd")
      [] f.kind = "ProgressIndicator" -> Ok("FileLoading")
      [] OTHER -> TransitionErr(s, f)

\* state_machine.rs lines 113-115, 167-171
from_ErrorReadContinue(s, f) ==
    CASE f.kind = "TspError" -> Ok(s)
      [] f.kind = "TspErrorEnd" -> Ok("ErrorReadEnd")
      [] f.kind = "ProgressIndicator" -> Ok("FileLoading")
      [] OTHER -> TransitionErr(s, f)

\* state_machine.rs lines 118-123, 176-177
from_ErrorReadEnd(s, f) ==
    CASE f.kind = "Prompt" -> Ok("DataReadEnd")
      [] f.kind = "PromptWithError" -> Ok("DataReadEndPendingError")
      [] f.kind = "TspErrorStart" -> Ok("ErrorReadStart")
      [] f.kind = "Data" -> Ok("TextDataReadStart")
      [] f.kind = "BinaryData" -> Ok("BinaryDataReadStart")
      [] f.kind = "ProgressIndicator" -> Ok("FileLoading")
      [] OTHER -> TransitionErr(s, f)

\* from_FileLoading with Prompt ending the cycle in DataReadEnd, as it does
\* from every other state
from_FileLoading_dataend(s, f) ==
    CASE f.kind = "Prompt" -> Ok("DataReadEnd")
      [] f.kind = "PromptWithError" -> Ok("DataReadEndPendingError")
      [] f.kind = "TspErrorStart" -> Ok("ErrorReadStart")
      [] f.kind = "Data" -> Ok("TextDataReadStart")
      [] f.kind = "BinaryData" -> Ok("BinaryDataReadStart")
      [] f.kind = "ProgressIndicator" -> Ok(s)
      [] OTHER -> TransitionErr(s, f)

\* state_machine.rs lines 127-132, 173-174
from_FileLoading(s, f) ==
    CASE f.kind = "Prompt" -> Ok("Init")
      [] f.kind = "PromptWithError" -> Ok("DataReadEndPendingError")
      [] f.kind = "TspErrorStart" -> Ok("ErrorReadStart")
      [] f.kind = "Data" -> Ok("TextDataReadStart")
      [] f.kind = "BinaryData" -> Ok("BinaryDataReadStart")
      [] f.kind = "ProgressIndicator" -> Ok(s)
      [] OTHER -> TransitionErr(s, f)

next_state_src(s, f) ==
    CASE s = "Init" -> from_Init(s, f)
      [] s = "TextDataReadStart" -> from_TextDataReadStart(s, f)
      [] s = "TextDataReadContinue" -> from_TextDataReadContinue(s, f)
      [] s = "BinaryDataReadStart" -> from_BinaryDataReadStart(s, f)
      [] s = "BinaryDataReadContinue" -> from_BinaryDataReadContinue(s, f)
      [] s = "DataReadEnd" -> from_DataReadEnd(s, f)
      [] s = "DataReadEndPendingError" -> from_DataReadEndPendingError(s, f)
      [] s = "ErrorReadStart" -> from_ErrorReadStart(s, f)
      [] s = "ErrorReadContinue" -> from_ErrorReadContinue(s, f)
      [] s = "ErrorReadEnd" -> from_ErrorReadEnd(s, f)
      [] s = "FileLoading" -> from_FileLoading(s, f)

(***************************************************************************)
(* The node-capture part of next_state: the NodeStart and NodeEnd columns  *)
(* and the NodeDataRead rows of the transition table.                      *)
(***************************************************************************)
next_state_node(s, f) ==
    LET k == f.kind IN
    CASE k = "NodeStart" /\ s \in {"Init", "TextDataReadStart", "DataReadEnd", "NodeDataReadEnd"}
            -> Ok("NodeDataReadStart")
      [] k = "NodeEnd" /\ s \in {"NodeDataReadStart", "NodeDataReadContinue"}
            -> Ok("NodeDataReadEnd")
      [] s = "NodeDataReadStart" /\ k = "Data" -> Ok("NodeDataReadContinue")
      [] s = "NodeDataReadStart" /\ k = "ProgressIndicator" -> Ok("FileLoading")
      [] s = "NodeDataReadContinue" /\ k = "Data" -> Ok(s)
      [] s = "NodeDataReadContinue" /\ k = "ProgressIndicator" -> Ok("FileLoading")
      [] s = "NodeDataReadEnd" /\ k = "Prompt" -> Ok("DataReadEnd")
      [] s = "NodeDataReadEnd" /\ k = "PromptWithError" -> Ok("DataReadEndPendingError")
      [] s = "NodeDataReadEnd" /\ k = "TspErrorStart" -> Ok("ErrorReadStart")
      [] s = "NodeDataReadEnd" /\ k = "Data" -> Ok("TextDataReadStart")
      [] s = "NodeDataReadEnd" /\ k = "ProgressIndicator" -> Ok("FileLoading")
      [] OTHER -> TransitionErr(s, f)

\* next_state over the whole alphabet: the match of state_machine.rs where
\* it has an arm for the pair, the node-capture table elsewhere
next_state(s, f) ==
    IF s \in SrcStates /\ f.kind \in SrcKinds
    THEN next_state_src(s, f)
    ELSE next_state_node(s, f)

(***************************************************************************)
(* Repl::state_action, repl.rs:734-820.  Option<ReadState> is "None" or a  *)
(* state.  The match arms are tried in order, so the arms are an IF chain. *)
(***************************************************************************)
None == "None"

\* Option::unwrap_or_default, repl.rs:129 (ReadState's default is Init)
unwrap_or_default(o) == IF o = None THEN "Init" ELSE o

\* (None, Some(state)) arm, repl.rs:736-752
state_action_first(state) ==
    CASE state \in {"Init", "DataReadEnd", "ErrorReadEnd"} -> "Prompt"
      [] state = "DataReadEndPendingError" -> "GetError"
      [] state \in {"TextDataReadStart", "TextDataReadContinue"} -> "PrintText"
      [] state = "ErrorReadContinue" -> "PrintError"
      [] state \in {"NodeDataReadStart", "NodeDataReadContinue"} -> "GetNodeDetails"
      [] state = "NodeDataReadEnd" -> "Prompt"
      [] state \in {"ErrorReadStart", "FileLoading"} -> "None"

\* targets of the GetNodeDetails arm, repl.rs:770, with NodeDataReadEnd
\* taken for a capture state as well
NodeDetailsTargets_withEnd == {"NodeDataReadContinue", "NodeDataReadEnd"}

\* targets of the GetNodeDetails arm, repl.rs:770
NodeDetailsTargets == {"NodeDataReadContinue"}

\* sources of the GetNodeDetails arm, repl.rs:763-769
NodeDetailsSources ==
    {"Init", "TextDataReadStart", "TextDataReadContinue", "DataReadEnd",
     "ErrorReadEnd", "FileLoading", "NodeDataReadStart"}

\* sources of the PrintText arm, repl.rs:776-784
PrintTextSources ==
    {"Init", "TextDataReadStart", "TextDataReadContinue", "DataReadEnd",
     "ErrorReadEnd", "FileLoading", "NodeDataReadStart", "NodeDataReadContinue",
     "NodeDataReadEnd"}

\* sources of the first alternative of the Prompt arm without FileLoading
PromptInitSources_noloading ==
    {"TextDataReadStart", "TextDataReadContinue", "ErrorReadStart",
     "ErrorReadContinue"}

\* sources of the first alternative of the Prompt arm, repl.rs:791-795
PromptInitSources ==
    {"TextDataReadStart", "TextDataReadContinue", "ErrorReadStart",
     "ErrorReadContinue", "FileLoading"}

\* (Some(prev_state), Some(state)) arm, repl.rs:756-818
state_action_next(prev_state, state) ==
    IF state = "ErrorReadContinue" THEN "PrintError"
    ELSE IF state = "DataReadEndPendingError" THEN "GetError"
    ELSE IF prev_state \in NodeDetailsSources /\ state \in NodeDetailsTargets
        THEN "GetNodeDetails"
    ELSE IF prev_state \in PrintTextSources
            /\ state \in {"TextDataReadStart", "TextDataReadContinue"}
        THEN "PrintText"
    ELSE IF (prev_state \in PromptInitSources /\ state = "Init")
            \/ state \in {"DataReadEnd", "ErrorReadEnd", "NodeDataReadEnd"}
        THEN "Prompt"
    ELSE "None"

state_action(prev_state, state) ==
    IF state = None THEN "None"
    ELSE IF prev_state = None THEN state_action_first(state)
    ELSE state_action_next(prev_state, state)

(***************************************************************************)
(* One turn of the frame loop of Repl::handle_data, repl.rs:127-157.       *)
(* acc carries the caller's prev_state, state and prompt and the local     *)
(* get_error; pwe, nodeActs and inNode are history of the frames handled:  *)
(*   pwe       a PromptWithError frame brought the state to                *)
(*             DataReadEndPendingError                                     *)
(*   nodeActs  for each GetNodeDetails derived: the state after the frame  *)
(*             and whether a NodeStart without a later NodeEnd was seen    *)
(*   inNode    a NodeStart frame was handled and no NodeEnd after it       *)
(* action is the action derived for the frame, "None" when next_state      *)
(* returned an error.                                                      *)
(***************************************************************************)
\* *prev_state when the stale value is kept instead of the current state
prev_for_frame_stale(acc) == acc.prev_state

\* repl.rs:128: *prev_state = *state, before the frame is applied
prev_for_frame(acc) == acc.state

\* *state after a transition error, when the error resets the machine
state_on_error_reset(prev) == "Init"

\* repl.rs:129: `?` returns before *state is assigned, so *state keeps the
\* value it had before the frame
state_on_error(prev) == prev

handle_frame(f, acc) ==
    LET prev == prev_for_frame(acc)
        r == next_state(unwrap_or_default(prev), f)
    IN  IF ~r.ok
        THEN [acc EXCEPT !.ok = FALSE, !.prev_state = prev,
                         !.state = state_on_error(acc.state),
                         !.action = "None"]
        ELSE
          LET a == state_action(prev, r.state)
              inNode2 == IF f.kind = "NodeStart" THEN TRUE
                         ELSE IF f.kind = "NodeEnd" THEN FALSE
                         ELSE acc.inNode
          IN  [ok |-> TRUE,
               prev_state |-> prev,
               state |-> r.state,
               action |-> a,
               prompt |-> acc.prompt \/ a = "Prompt",
               get_error |-> acc.get_error \/ a = "GetError",
               pwe |-> acc.pwe \/ (f.kind = "PromptWithError"
                                   /\ r.state = "DataReadEndPendingError"),
               nodeActs |-> IF a = "GetNodeDetails"
                            THEN acc.nodeActs \cup
                                   {[state |-> r.state, inNode |-> inNode2]}
                            ELSE acc.nodeActs,
               inNode |-> inNode2]

(***************************************************************************)
(* Repl::parse_user_commands, repl.rs:547-677, over classes of input       *)
(* lines: one class per path through the function.  The line read at end   *)
(* of file is the empty string, class "empty".                             *)
(***************************************************************************)
LineClasses ==
    {"empty", "file_path", "tsp", "bad_quote", "clap_error",
     ".help", ".exit", ".exit -h", ".info", ".script file", ".script missing",
     ".reset", ".nodes path", ".nodes missing", ".upgrade file",
     ".upgrade missing"}

\* the request of a path argument when is_file is not asked
checked_path_unchecked(is_file, req) == req

\* the is_file check of .script and .upgrade, repl.rs:614-623, 661-670
checked_path(is_file, req) == IF is_file THEN req ELSE "Usage"

parse_user_commands(line) ==
    CASE line = "empty" -> "None"
      [] line = "file_path" -> "Script"
      [] line = "tsp" -> "Tsp"
      [] line = "bad_quote" -> "InvalidInput"
      [] line = "clap_error" -> "Usage"
      [] line = ".help" -> "Help"
      [] line = ".exit" -> "Exit"
      [] line = ".exit -h" -> "Help"
      [] line = ".info" -> "Info"
      [] line = ".script file" -> checked_path(TRUE, "Script")
      [] line = ".script missing" -> checked_path(FALSE, "Script")
      [] line = ".reset" -> "Reset"
      [] line = ".nodes path" -> "TspLinkNodes"
      [] line = ".nodes missing" -> "TspLinkNodes"
      [] line = ".upgrade file" -> checked_path(TRUE, "Update")
      [] line = ".upgrade missing" -> checked_path(FALSE, "Update")

(***************************************************************************)
(* Bytes.  A byte is written as a string; a buffer is a sequence of bytes.  *)
(* NBSP is U+00A0, the two bytes C2 A0: whitespace for char::is_whitespace  *)
(* and not for u8::is_ascii_whitespace.                                     *)
(***************************************************************************)
NUL == "NUL"

\* u8::is_ascii_whitespace: space, tab, line feed, form feed, carriage return
AsciiWs == {" ", "\n"}

NBSP == <<"C2", "A0">>

\* U+FFFD, what from_utf8_lossy puts for an invalid byte
Replacement == "FFFD"

Min(S) == CHOOSE m \in S : \A n \in S : m <= n

\* &input[n..] guarded by input.len() > n, instrument.rs:78-82
drop_first(input, n) ==
    IF Len(input) > n THEN SubSeq(input, n + 1, Len(input)) ELSE <<>>

\* str::starts_with
starts_with(s, p) == Len(s) >= Len(p) /\ SubSeq(s, 1, Len(p)) = p

\* String::from_utf8_lossy over the bytes of the model: C2 A0 decodes to
\* U+00A0 (kept as its two bytes), a C2 or A0 on its own is invalid
RECURSIVE from_utf8_lossy(_)
from_utf8_lossy(b) ==
    IF b = <<>> THEN <<>>
    ELSE IF starts_with(b, NBSP)
        THEN NBSP \o from_utf8_lossy(SubSeq(b, 3, Len(b)))
    ELSE IF b[1] \in {"C2", "A0"}
        THEN <<Replacement>> \o from_utf8_lossy(Tail(b))
    ELSE <<b[1]>> \o from_utf8_lossy(Tail(b))

\* str::trim_start: leading chars with char::is_whitespace removed
RECURSIVE trim_start(_)
trim_start(s) ==
    IF s = <<>> THEN s
    ELSE IF s[1] \in AsciiWs THEN trim_start(Tail(s))
    ELSE IF starts_with(s, NBSP) THEN trim_start(SubSeq(s, 3, Len(s)))
    ELSE s

\* str::trim_end
RECURSIVE trim_end(_)
trim_end(s) ==
    IF s = <<>> THEN s
    ELSE IF s[Len(s)] \in AsciiWs THEN trim_end(SubSeq(s, 1, Len(s) - 1))
    ELSE IF Len(s) >= 2 /\ SubSeq(s, Len(s) - 1, Len(s)) = NBSP
        THEN trim_end(SubSeq(s, 1, Len(s) - 2))
    ELSE s

\* str::trim
trim(s) == trim_end(trim_start(s))

\* <[u8]>::trim_ascii_start
trim_ascii_start(b) ==
    LET keep == {i \in 1..Len(b) : b[i] \notin AsciiWs}
    IN  IF keep = {} THEN <<>> ELSE SubSeq(b, Min(keep), Len(b))

\* str::contains
contains(hay, needle) ==
    \E p \in 0..(Len(hay) - Len(needle)) :
        SubSeq(hay, p + 1, p + Len(needle)) = needle

(***************************************************************************)
(* The tokenizer: instrument-repl/src/instrument.rs                        *)
(***************************************************************************)
NODE_START == <<"N", "O", "D", "E", ">", "S", "T", "A", "R", "T">>

NODE_END == <<"N", "O", "D", "E", ">", "E", "N", "D">>

TSP_PROMPT == <<"T", "S", "P", ">">>

TSP_ERROR_PROMPT == <<"T", "S", "P", "?">>

ERM_START == <<"E", "R", "M", ">", "S", "T", "A", "R", "T">>

ERM_DONE == <<"E", "R", "M", ">", "D", "O", "N", "E">>

ERM == <<"E", "R", "M", ">">>

PROGRESS == <<">", ">", ">", ">">>

\* a ParsedResponse with its payload: the bytes of Data, the text of TspError
Parsed(k, t) == [kind |-> k, text |-> t]

\* the search list of find_next when the progress indicator is left out
SearchList_noprogress ==
    <<TSP_PROMPT, TSP_ERROR_PROMPT, ERM_START, ERM_DONE, ERM,
      NODE_START, NODE_END>>

\* the search list of find_next, instrument.rs:56-65
SearchList ==
    <<TSP_PROMPT, TSP_ERROR_PROMPT, ERM_START, ERM_DONE, ERM, PROGRESS,
      NODE_START, NODE_END>>

\* input.windows(i.len()).position(|w| w == i), instrument.rs:36-38: the set
\* holding the first offset of i in input, empty when there is none
windows_position(input, i) ==
    LET hits == {p \in 0..(Len(input) - Len(i)) :
                    SubSeq(input, p + 1, p + Len(i)) = i}
    IN  IF hits = {} THEN {} ELSE {Min(hits)}

\* the for loop of find_first_of, instrument.rs:35-43
RECURSIVE find_first_of_loop(_, _, _)
find_first_of_loop(input, search, lowest_pos) ==
    IF search = <<>> THEN lowest_pos
    ELSE LET found == windows_position(input, Head(search))
             temp == IF found = {} THEN lowest_pos
                     ELSE CHOOSE x \in found : TRUE
         IN  find_first_of_loop(input, Tail(search),
                                IF temp < lowest_pos THEN temp ELSE lowest_pos)

\* find_first_of, instrument.rs:33-49: Option<usize> as a set
find_first_of(input, search) ==
    LET lowest_pos == find_first_of_loop(input, search, Len(input))
    IN  IF lowest_pos < Len(input) THEN {lowest_pos} ELSE {}

\* ParsedResponse::find_next, instrument.rs:53-67
find_next(input) == find_first_of(input, SearchList)

\* a fixed-width sentinel arm that returns the whole input as the rest
fixed_width_keep(kind, input, width) ==
    [frame |-> Parsed(kind, <<>>), rest |-> input]

\* one fixed-width arm of parse_next, e.g. instrument.rs:93-100
fixed_width(kind, input, width) ==
    [frame |-> Parsed(kind, <<>>), rest |-> drop_first(input, width)]

\* the text of a TspError frame when it is not trimmed
error_text_untrimmed(v) == from_utf8_lossy(v)

\* the text of a TspError frame, instrument.rs:141-142
error_text(v) == trim(from_utf8_lossy(v))

\* the ERM> arm of parse_next, instrument.rs:125-144
error_record(input) ==
    LET next_token == IF Len(input) > 4
                      THEN find_next(SubSeq(input, 5, Len(input)))
                      ELSE {}
        cut == IF next_token = {} THEN Len(input)
               ELSE (CHOOSE x \in next_token : TRUE) + 4
        v == IF Len(input) > 4 THEN SubSeq(input, 5, cut) ELSE <<>>
        r == IF Len(input) > 4 THEN SubSeq(input, cut + 1, Len(input))
             ELSE <<>>
    IN  [frame |-> Parsed("TspError", error_text(v)), rest |-> r]

\* the last arm of parse_next, instrument.rs:153-157
data_up_to_next(input) ==
    LET next_token == find_next(input)
        cut == IF next_token = {} THEN Len(input)
               ELSE CHOOSE x \in next_token : TRUE
    IN  [frame |-> Parsed("Data", SubSeq(input, 1, cut)),
         rest |-> SubSeq(input, cut + 1, Len(input))]

\* the test that opens parse_next when a leading NUL is not looked for
nothing_to_parse_emptyonly(input) == input = <<>>

\* the test that opens parse_next, instrument.rs:72-74
nothing_to_parse(input) == input = <<>> \/ input[1] = NUL

\* ParsedResponse::parse_next, instrument.rs:71-158: Option<(Self, Vec<u8>)>
\* as a set.  The sentinel is looked for in s, the lossy view trimmed at the
\* start, and the bytes are cut from input, which is not trimmed.
parse_next(input) ==
    IF nothing_to_parse(input) THEN {}
    ELSE
      LET s == trim_start(from_utf8_lossy(input)) IN
      {  IF starts_with(s, NODE_START) THEN fixed_width("NodeStart", input, 10)
         ELSE IF starts_with(s, NODE_END) THEN fixed_width("NodeEnd", input, 8)
         ELSE IF starts_with(s, TSP_PROMPT) THEN fixed_width("Prompt", input, 4)
         ELSE IF starts_with(s, TSP_ERROR_PROMPT)
             THEN fixed_width("PromptWithError", input, 4)
         ELSE IF starts_with(s, ERM_START)
             THEN fixed_width("TspErrorStart", input, 9)
         ELSE IF starts_with(s, ERM_DONE)
             THEN fixed_width("TspErrorEnd", input, 8)
         ELSE IF starts_with(s, ERM) THEN error_record(input)
         ELSE IF starts_with(s, PROGRESS)
             THEN fixed_width("ProgressIndicator", input, 4)
         ELSE data_up_to_next(input)  }

\* the residual buffer kept by the iterator when it is not trimmed
residual_untrimmed(remainder) == remainder

\* the residual buffer kept by the iterator, instrument.rs:184-186
residual(remainder) == trim_ascii_start(remainder)

\* ResponseParser::next, instrument.rs:181-189: the frame and the new
\* self.data, or nothing
parser_next(data) ==
    {[frame |-> r.frame, data |-> residual(r.rest)] : r \in parse_next(data)}

\* the condition under which handle_data tokenizes at all, repl.rs:120-123
RECURSIVE trim_end_nul(_)
trim_end_nul(s) ==
    IF s = <<>> THEN s
    ELSE IF s[Len(s)] = NUL THEN trim_end_nul(SubSeq(s, 1, Len(s) - 1))
    ELSE s

has_data(data) == trim_end_nul(from_utf8_lossy(data)) # <<>>

(***************************************************************************)
(* accumulate_and_search, repl.rs:41-53                                    *)
(***************************************************************************)
\* buf up to its first NUL, repl.rs:42-43
up_to_first_nul(buf) ==
    LET nuls == {i \in 1..Len(buf) : buf[i] = NUL}
    IN  IF nuls = {} THEN buf ELSE SubSeq(buf, 1, Min(nuls) - 1)

\* the search done on the bytes of the last read only
accumulate_and_search_lastread(accumulator, buf, needle) ==
    LET b == up_to_first_nul(buf)
    IN  [accumulator |-> accumulator \o from_utf8_lossy(b),
         found |-> contains(from_utf8_lossy(b), needle)]

\* accumulate_and_search, repl.rs:41-53: the new accumulator and the result
accumulate_and_search(accumulator, buf, needle) ==
    LET b == up_to_first_nul(buf)
        acc == accumulator \o from_utf8_lossy(b)
    IN  [accumulator |-> acc, found |-> contains(acc, needle)]

(***************************************************************************)
(* State                                                                   *)
(***************************************************************************)
VARIABLES
    \* dispatcher thread (Repl::start)
    t1pc,           \* "start", "clear", "script", "prompts", "errors" (the
                    \* startup steps), "get_errors", "loop", "prompt", "recv",
                    \* "frames", "join", "done" (start returned Ok),
                    \* "failed" (start returned Err), "panicked"
    t1end,          \* why the dispatcher left its loop: "none", "exit",
                    \* "disconnected", or the kind of the propagated error
    prev_state,     \* Option<ReadState>, repl.rs:181
    state,          \* Option<ReadState>, repl.rs:182
    prompt,         \* the prompt flag, repl.rs:207
    \* the frame loop of handle_data
    get_error,      \* the local get_error, repl.rs:126
    frameCount,     \* frames taken from the parser in this call
    lastPayload,    \* the last frame taken was a Data or TspError frame
    \* error fetch (Repl::get_errors)
    geCaller,       \* call site get_errors returns to
    geAcc,          \* pieces accumulated in err: error records with "good"
                    \* or "bad" JSON, and "other" frames
    geTick,         \* flips on every read of the error loop
    \* request channel, repl.rs:185
    chan,           \* requests in flight, [id, req]
    senderAlive,    \* user_out not yet dropped
    receiverAlive,  \* loop_in not yet dropped
    \* user-input thread (Repl::init_user_input)
    t2pc,           \* "idle" (not spawned), "read", "send", "done"
    t2req,          \* the request parsed from the last line
    stdinEof,       \* read_line has returned 0 bytes
    \* history
    nextId,         \* id of the next request sent
    handled,        \* ids of the requests the dispatcher received, in order
    exitSent,       \* Request::Exit has been sent
    pwePending,     \* a PromptWithError frame reached DataReadEndPendingError
                    \* since the last prompt written to the console
    fetchWrites,    \* writes of print(_KIC.error_message()) since then
    nodeActs,       \* GetNodeDetails actions of the last handle_data
    inNode,         \* a NodeStart frame was handled and no NodeEnd after it
    iterLog,        \* what the current loop iteration has done so far, in
                    \* order: "frame" n (the action of the n-th frame of
                    \* the read was applied), "end" (the parser had no
                    \* more frame), "fetch" (handle_data called
                    \* get_errors), "fetched" n (get_errors returned Ok to
                    \* handle_data and passed over n frames of its text),
                    \* "prompt" (the prompt was written)
    sinceReq,       \* "awaiting": a Tsp, Script or Update request was
                    \* handled and nothing has set the prompt flag since;
                    \* "request": the same, but a later request set the
                    \* flag; "none" otherwise
    \* a single application of next_state: the state, the frame and the set
    \* of results returned so far
    smState, smInput, smResult,
    \* frames threaded through next_state as handle_data does, repl.rs:127-131
    smPrev,         \* *prev_state after the last frame
    smAction,       \* the action derived for the last frame, "NoFrame" before
                    \* the first frame and after a transition error
    smCount         \* frames threaded so far

VARIABLES
    \* clear_output_queue, repl.rs:60-92
    cqPc,           \* "idle" (not called), "write", "loop", "ok" (returned
                    \* Ok), "exhausted" (returned the error Other), "io"
                    \* (returned an I/O error)
    cqAttempt,      \* turns of the for loop taken, one read each
    cqDataReads,    \* reads that returned Ok
    accumulate,     \* the String accumulate, repl.rs:72
    \* the tokenizer at work on the bytes of the instrument
    tkSrc,          \* the frames whose wire forms the instrument sends
    tkStream,       \* bytes sent and not yet read
    tkReads,        \* instrument reads done
    tkPc,           \* "idle", "read" (at the instrument read), "parse" (in
                    \* the frame loop), "done" (nothing left to tokenize)
    tkData,         \* ResponseParser::data
    tkIn,           \* data at the last call of ResponseParser::next
    tkOut,          \* what that call returned: "none" (no call yet), "some",
                    \* "end" (None), and for a call made after "end":
                    \* "end_again" (None), "some_after_end"
    tkFrames        \* the frames the parser has yielded, in order

VARIABLES
    \* history of the run of the launcher's connect around Repl::start
    startupLog,     \* results of the startup steps run so far, in order
    t2line,         \* the class of the last line read from stdin
    flashRes,       \* result of flash_firmware in the last Update handled:
                    \* "none" (not called), "ok", "err"
    promptsWrite,   \* result of the write of localnode.prompts=1 in the last
                    \* Update handled: "none" (not written), "ok", "err"
    replLife,       \* "alive", "dropped" (Drop::drop returned),
                    \* "drop_panicked"
    cleanupWrites,  \* writes of the cleanup line by Drop::drop
    connectRet      \* what connect returned: "none" (not yet), "Ok", "Err"

vars ==
    <<t1pc, t1end, prev_state, state, prompt, get_error, frameCount,
      lastPayload, geCaller, geAcc, geTick,
      chan, senderAlive, receiverAlive, t2pc, t2req, stdinEof,
      nextId, handled, exitSent, pwePending, fetchWrites,
      nodeActs, inNode, iterLog, sinceReq, smState, smInput, smResult, smPrev, smAction, smCount,
      cqPc, cqAttempt, cqDataReads, accumulate,
      tkSrc, tkStream, tkReads, tkPc, tkData, tkIn, tkOut, tkFrames,
      startupLog, t2line, flashRes, promptsWrite, replLife, cleanupWrites,
      connectRet>>

t1vars ==
    <<t1pc, t1end, prev_state, state, prompt, get_error, frameCount,
      lastPayload, geCaller, geAcc, geTick>>

t2vars == <<t2pc, t2req, stdinEof>>

chanvars == <<chan, senderAlive, receiverAlive>>

histvars ==
    <<nextId, handled, exitSent, pwePending, fetchWrites, nodeActs, inNode,
      iterLog, sinceReq>>

smvars == <<smState, smInput, smResult, smPrev, smAction, smCount>>

cqvars == <<cqPc, cqAttempt, cqDataReads, accumulate>>

tkvars == <<tkSrc, tkStream, tkReads, tkPc, tkData, tkIn, tkOut, tkFrames>>

endvars == <<replLife, cleanupWrites, connectRet>>

lifevars ==
    <<startupLog, t2line, flashRes, promptsWrite, replLife, cleanupWrites,
      connectRet>>

\* clear_output_queue is not running
CqIdle ==
    /\ cqPc = "idle"
    /\ cqAttempt = 0
    /\ cqDataReads = 0
    /\ accumulate = <<>>

\* no buffer is being tokenized
TkIdle ==
    /\ tkSrc = <<>>
    /\ tkStream = <<>>
    /\ tkReads = 0
    /\ tkPc = "idle"
    /\ tkData = <<>>
    /\ tkIn = <<>>
    /\ tkOut = "none"
    /\ tkFrames = <<>>

\* the read-state machine is not being applied on its own
SmIdle ==
    /\ smState = "Init"
    /\ smInput = Frame("Prompt", 0)
    /\ smResult = {}
    /\ smPrev = None
    /\ smAction = "NoFrame"
    /\ smCount = 0

\* Repl::new and the locals of start before its first statement,
\* repl.rs:96-102, 181-182
ReplInit ==
    /\ t1pc = "start"
    /\ t1end = "none"
    /\ prev_state = None
    /\ state = None
    /\ prompt = FALSE
    /\ get_error = FALSE
    /\ frameCount = 0
    /\ lastPayload = FALSE
    /\ geCaller = "none"
    /\ geAcc = <<>>
    /\ geTick = FALSE
    /\ chan = <<>>
    /\ senderAlive = TRUE
    /\ receiverAlive = TRUE
    /\ t2pc = "idle"
    /\ t2req = "None"
    /\ stdinEof = FALSE
    /\ nextId = 1
    /\ handled = <<>>
    /\ exitSent = FALSE
    /\ pwePending = FALSE
    /\ fetchWrites = 0
    /\ nodeActs = {}
    /\ inNode = FALSE
    /\ iterLog = <<>>
    /\ sinceReq = "none"
    /\ startupLog = <<>>
    /\ t2line = "none"
    /\ flashRes = "none"
    /\ promptsWrite = "none"
    /\ replLife = "alive"
    /\ cleanupWrites = 0
    /\ connectRet = "none"

Init ==
    /\ ReplInit
    /\ SmIdle
    /\ CqIdle
    /\ TkIdle

(***************************************************************************)
(* Dispatcher thread: Repl::start, repl.rs:179-341                         *)
(***************************************************************************)
\* an error leaves start through `?`: loop_in is dropped with the frame of
\* start and the input thread is not joined
Fail(kind) ==
    /\ t1pc' = "failed"
    /\ t1end' = kind
    /\ receiverAlive' = FALSE

\* the write that opens Repl::get_errors, repl.rs:344-346; pwe tells whether
\* a PromptWithError frame is waiting for its error fetch
GetErrorsBegin(caller, pwe) ==
    /\ t1pc' = "get_errors"
    /\ geCaller' = caller
    /\ geAcc' = <<>>
    /\ fetchWrites' = IF pwe THEN fetchWrites + 1 ELSE fetchWrites

\* repl.rs:180-187: set_nonblocking, channel(), init_user_input
StartSpawn ==
    /\ t1pc = "start"
    /\ \E out \in {"ok", "io"} :
         IF out = "ok"
         THEN /\ t1pc' = "clear"
              /\ t2pc' = "read"
              /\ UNCHANGED <<t1end, senderAlive, receiverAlive>>
         ELSE /\ Fail("io")
              /\ senderAlive' = FALSE
              /\ UNCHANGED t2pc
    /\ UNCHANGED <<prev_state, state, prompt, get_error, frameCount,
                   lastPayload, geCaller, geAcc, geTick, chan,
                   t2req, stdinEof, histvars, smvars, cqvars, tkvars,
                   lifevars>>

\* the startup steps of Repl::start in the order of the code,
\* repl.rs:189-201: clear_output_queue, write_script of _kic_common, the
\* write of _KIC.prompts_enable(true), get_errors and the printing
StartupSteps == <<"clear", "script", "prompts", "errors">>

\* where start goes after a startup step when a failed upload is let pass
after_startup_step_lenient(step, out) ==
    IF out = "ok" \/ step = "script"
    THEN CASE step = "clear" -> "script"
           [] step = "script" -> "prompts"
           [] step = "prompts" -> "errors"
           [] step = "errors" -> "get_errors"
    ELSE "failed"

\* where start goes after a startup step: every step ends in `?`,
\* repl.rs:189-201
after_startup_step(step, out) ==
    IF out = "ok"
    THEN CASE step = "clear" -> "script"
           [] step = "script" -> "prompts"
           [] step = "prompts" -> "errors"
           [] step = "errors" -> "get_errors"
    ELSE "failed"

\* repl.rs:189-201: one startup step; the step "errors" is the write that
\* opens get_errors, whose reads follow in GetErrorsRead
StartupWrites ==
    /\ t1pc \in {"clear", "script", "prompts", "errors"}
    /\ \E out \in {"ok", "io", "other"} :
         LET to == after_startup_step(t1pc, out) IN
         CASE to = "failed" ->
                /\ Fail(out)
                /\ startupLog' = Append(startupLog, out)
                /\ UNCHANGED <<geCaller, geAcc, fetchWrites>>
           [] to = "get_errors" ->
                /\ GetErrorsBegin("startup", FALSE)
                /\ UNCHANGED <<t1end, receiverAlive, startupLog>>
           [] OTHER ->
                /\ t1pc' = to
                /\ startupLog' = Append(startupLog, out)
                /\ UNCHANGED <<t1end, receiverAlive, geCaller, geAcc,
                               fetchWrites>>
    /\ UNCHANGED <<prev_state, state, prompt, get_error, frameCount,
                   lastPayload, geTick, chan, senderAlive,
                   t2vars, nextId, handled, exitSent, pwePending, nodeActs,
                   inNode, iterLog, sinceReq, smvars, cqvars, tkvars,
                   t2line, flashRes, promptsWrite, endvars>>

\* the state the dispatcher is left in after an error fetch, repl.rs:165,
\* when the assignment is forgotten
StateAfterFetch_kept(st) == st

\* the state the dispatcher is left in after an error fetch, repl.rs:165
StateAfterFetch(st) == "DataReadEnd"

\* what the three callers of get_errors do with its Ok result:
\* repl.rs:201-208 (startup), 159-166 + 215 (handle_data), 230-236 (request)
GetErrorsReturn ==
    /\ prompt' = TRUE
    /\ state' = IF geCaller = "handle_data" THEN StateAfterFetch(state) ELSE state
    /\ t1pc' = IF geCaller = "handle_data" THEN "prompt" ELSE "loop"
    /\ geCaller' = "none"

\* the frames of the accumulated text taken as error records, when every
\* frame is taken
is_error_record_all(x) == TRUE

\* repl.rs:361: `if let ParsedResponse::TspError(e) = response`; a piece
\* of the accumulated text is an error record with good JSON, one with bad
\* JSON, or a frame of another kind ("other": a prompt, Data text, a
\* progress indicator, the start or the end of the error dump)
is_error_record(x) == x \in {"good", "bad"}

\* repl.rs:362: serde_json::from_str(e.trim()) returns Ok
json_ok(x) == x = "good"

\* the `?` of repl.rs:362 returns the error of the first record that does
\* not parse
json_fails(acc) ==
    \E i \in 1..Len(acc) : is_error_record(acc[i]) /\ ~json_ok(acc[i])

\* the frames of the accumulated text that get_errors passes over,
\* repl.rs:360-365
dropped(acc) == Cardinality({i \in 1..Len(acc) : ~is_error_record(acc[i])})

\* one turn of 'error_loop and what follows it, repl.rs:347-367
GetErrorsRead ==
    /\ t1pc = "get_errors"
    /\ \E out \in {"empty", "good", "bad", "other", "done", "done_io",
                    "wouldblock", "io"} :
         CASE out = "empty" ->
                /\ geTick' = ~geTick
                /\ UNCHANGED <<t1pc, t1end, state, prompt, geCaller, geAcc,
                               receiverAlive>>
           [] out \in {"good", "bad", "other"} ->
                /\ Len(geAcc) < MaxErrRecords
                /\ geAcc' = Append(geAcc, out)
                /\ geTick' = ~geTick
                /\ UNCHANGED <<t1pc, t1end, state, prompt, geCaller,
                               receiverAlive>>
           [] out = "done" ->
                /\ geTick' = ~geTick
                /\ IF json_fails(geAcc)
                   THEN /\ Fail("json")
                        /\ UNCHANGED <<state, prompt, geCaller, geAcc>>
                   ELSE \* err and errors are dropped with the frame of
                        \* get_errors
                        /\ GetErrorsReturn
                        /\ geAcc' = <<>>
                        /\ UNCHANGED <<t1end, receiverAlive>>
           [] out = "done_io" ->
                \* set_nonblocking or the printing of an error fails
                /\ geTick' = ~geTick
                /\ ~json_fails(geAcc)
                /\ Fail("io")
                /\ UNCHANGED <<state, prompt, geCaller, geAcc>>
           [] out \in {"wouldblock", "io"} ->
                /\ Fail(out)
                /\ UNCHANGED <<state, prompt, geCaller, geAcc, geTick>>
    /\ startupLog' =
           IF geCaller = "startup" /\ t1pc' # "get_errors"
           THEN Append(startupLog, IF t1pc' = "failed" THEN t1end' ELSE "ok")
           ELSE startupLog
    /\ iterLog' =
           IF geCaller = "handle_data" /\ t1pc' = "prompt"
           THEN Append(iterLog, [ev |-> "fetched", n |-> dropped(geAcc)])
           ELSE iterLog
    /\ UNCHANGED <<prev_state, get_error, frameCount, lastPayload, chan,
                   senderAlive, t2vars, nextId, handled, exitSent, pwePending,
                   fetchWrites, nodeActs, inNode, sinceReq, smvars, cqvars,
                   tkvars, t2line, flashRes, promptsWrite, endvars>>

\* repl.rs:210-215 and 120-126: set_nonblocking, read, and the entry of
\* handle_data.  An empty read has no frame, so its frame loop ends at once.
ReadBegin ==
    /\ t1pc = "loop"
    /\ \E out \in {"ok", "wouldblock", "io"} :
         IF out = "ok"
         THEN /\ t1pc' = "frames"
              /\ UNCHANGED <<t1end, receiverAlive>>
         ELSE Fail(out)
    /\ get_error' = FALSE
    /\ frameCount' = 0
    /\ lastPayload' = FALSE
    /\ nodeActs' = {}
    /\ iterLog' = <<>>
    /\ UNCHANGED <<prev_state, state, prompt, geCaller, geAcc, geTick, chan,
                   senderAlive, t2vars, nextId, handled, exitSent, pwePending,
                   fetchWrites, inNode, sinceReq, smvars, cqvars, tkvars,
                   lifevars>>

\* repl.rs:127-157: the parser yields one more frame of the bytes read.
\* kinds is the set of frames the instrument may send.  The tokenizer ends
\* a Data or TspError frame only at a sentinel, so neither is followed by a
\* Data frame of the same read.
HandleFrameOn(kinds) ==
    /\ t1pc = "frames"
    /\ frameCount < MaxFrames
    /\ \E k \in kinds :
         /\ ~(lastPayload /\ k = "Data")
         /\ LET r == handle_frame(Frame(k, 0),
                       [ok |-> TRUE, prev_state |-> prev_state,
                        state |-> state, prompt |-> prompt,
                        get_error |-> get_error, pwe |-> pwePending,
                        nodeActs |-> nodeActs, inNode |-> inNode,
                        action |-> "None"])
            IN  /\ prev_state' = r.prev_state
                /\ state' = r.state
                /\ prompt' = r.prompt
                /\ get_error' = r.get_error
                /\ pwePending' = r.pwe
                /\ nodeActs' = r.nodeActs
                /\ inNode' = r.inNode
                /\ lastPayload' = (k \in {"Data", "TspError"})
                /\ frameCount' = frameCount + 1
                /\ iterLog' = IF r.ok
                              THEN Append(iterLog, [ev |-> "frame",
                                                    n |-> frameCount + 1])
                              ELSE iterLog
                /\ sinceReq' = IF r.action \in {"Prompt", "GetError"}
                               THEN "none"
                               ELSE sinceReq
                /\ IF r.ok
                   THEN \E out \in {"ok", "io"} :
                          \* print_data writes to the console for Data and
                          \* TspError frames
                          /\ out = "io" => k \in {"Data", "TspError"}
                          /\ IF out = "ok"
                             THEN UNCHANGED <<t1pc, t1end, receiverAlive>>
                             ELSE Fail("io")
                   ELSE Fail("transition")
    /\ UNCHANGED <<geCaller, geAcc, geTick, chan, senderAlive, t2vars, nextId,
                   handled, exitSent, fetchWrites, smvars, cqvars, tkvars,
                   lifevars>>

\* whether handle_data fetches the errors, when a prompt already due makes
\* it skip the fetch
fetch_due_unlessprompt(ge, p) == ge /\ ~p

\* repl.rs:158: whether handle_data fetches the errors after its frame loop
fetch_due(ge, p) == ge

\* repl.rs:158-170 and 215: the parser has no more frame
HandleDataEnd ==
    /\ t1pc = "frames"
    /\ IF fetch_due(get_error, prompt)
       THEN \E out \in {"ok", "io"} :
              IF out = "ok"
              THEN /\ GetErrorsBegin("handle_data", pwePending)
                   /\ iterLog' = iterLog \o <<[ev |-> "end", n |-> frameCount],
                                              [ev |-> "fetch", n |-> frameCount]>>
                   /\ UNCHANGED <<t1end, receiverAlive>>
              ELSE /\ Fail("io")
                   /\ iterLog' = Append(iterLog,
                                        [ev |-> "end", n |-> frameCount])
                   /\ UNCHANGED <<geCaller, geAcc, fetchWrites>>
       ELSE /\ t1pc' = "prompt"
            /\ iterLog' = Append(iterLog, [ev |-> "end", n |-> frameCount])
            /\ UNCHANGED <<t1end, receiverAlive, geCaller, geAcc, fetchWrites>>
    /\ UNCHANGED <<prev_state, state, prompt, get_error, frameCount,
                   lastPayload, geTick, chan, senderAlive, t2vars, nextId,
                   handled, exitSent, pwePending, nodeActs, inNode, sinceReq,
                   smvars, cqvars, tkvars, lifevars>>

\* repl.rs:217-220
PrintPrompt ==
    /\ t1pc = "prompt"
    /\ IF prompt
       THEN \E out \in {"ok", "io"} :
              IF out = "ok"
              THEN /\ prompt' = FALSE
                   /\ pwePending' = FALSE
                   /\ fetchWrites' = 0
                   /\ t1pc' = "recv"
                   /\ iterLog' = Append(iterLog,
                                        [ev |-> "prompt", n |-> frameCount])
                   /\ UNCHANGED <<t1end, receiverAlive>>
              ELSE /\ Fail("io")
                   /\ UNCHANGED <<prompt, pwePending, fetchWrites, iterLog>>
       ELSE /\ t1pc' = "recv"
            /\ UNCHANGED <<t1end, receiverAlive, prompt, pwePending,
                           fetchWrites, iterLog>>
    /\ nodeActs' = {}
    /\ UNCHANGED <<prev_state, state, get_error, frameCount, lastPayload,
                   geCaller, geAcc, geTick, chan,
                   senderAlive, t2vars, nextId, handled, exitSent, inNode,
                   sinceReq, smvars, cqvars, tkvars,
                   lifevars>>

(***************************************************************************)
(* The request channel, std::sync::mpsc::channel (repl.rs:185)             *)
(***************************************************************************)
\* Sender::send, repl.rs:717
ChanPush(q, m) == Append(q, m)

\* Receiver::try_recv hands out the newest request first
ChanFront_newest(q) == q[Len(q)]

\* Receiver::try_recv, repl.rs:221: the oldest request in flight
ChanFront(q) == Head(q)

\* Receiver::try_recv, repl.rs:221: the requests left in flight
ChanPop(q) == Tail(q)

\* requests whose handler does fallible I/O on the instrument or the console
IoRequests ==
    {"Tsp", "Script", "TspLinkNodes", "Info", "Update", "Reset", "Help",
     "Usage", "InvalidInput"}

\* requests whose handler opens a local file, repl.rs:239, 289
FileRequests == {"Script", "Update"}

\* the prompt flag after a request is handled, when every handler sets it
PromptAfter_always(req, p) == TRUE

\* the prompt flag after a request is handled, repl.rs:225-332
PromptAfter(req, p) ==
    CASE req \in {"Tsp", "Update"} -> p
      [] req = "Script" -> FALSE
      [] req \in {"TspLinkNodes", "Info", "Reset", "Help", "Usage",
                  "InvalidInput", "None"} -> TRUE

\* what the instrument owes after a request is handled, repl.rs:225-332: a
\* Tsp, Script or Update request leaves the prompt to the instrument's
\* answer; any other request sets the flag itself (GetError when
\* get_errors returns, repl.rs:235)
since_request(req, since) ==
    IF req \in {"Tsp", "Script", "Update"} THEN "awaiting"
    ELSE IF since = "none" THEN "none"
    ELSE "request"

\* the handler of Request::Update, repl.rs:287-296, by the step at which it
\* ends: "file" (open or read_to_end failed), "io" (print_flush failed),
\* "flash" (flash_firmware failed), "write" (the write of
\* localnode.prompts=1 failed), "ok".  The calls made on the instrument:
update_calls(out) ==
    CASE out \in {"file", "io"} -> [flash |-> "none", write |-> "none"]
      [] out = "flash" -> [flash |-> "err", write |-> "none"]
      [] out = "write" -> [flash |-> "ok", write |-> "err"]
      [] out = "ok" -> [flash |-> "ok", write |-> "ok"]

\* the kind of the error a handler returns through `?`
error_kind(out) == IF out = "write" THEN "io" ELSE out

\* repl.rs:221-339: try_recv and the handler of the request received.  The
\* handler of Request::Script panics at unreachable!, repl.rs:245-247, when
\* the file stem is not UTF-8.
TryRecv ==
    /\ t1pc = "recv"
    /\ IF chan # <<>>
       THEN LET msg == ChanFront(chan) IN
            /\ chan' = ChanPop(chan)
            /\ handled' = Append(handled, msg.id)
            /\ CASE msg.req = "Exit" ->
                      /\ t1pc' = "join"
                      /\ t1end' = "exit"
                      /\ receiverAlive' = FALSE
                      /\ UNCHANGED <<prev_state, prompt, geCaller, geAcc,
                                     fetchWrites, flashRes, promptsWrite>>
                 [] msg.req = "GetError" ->
                      /\ \E out \in {"ok", "io"} :
                           IF out = "ok"
                           THEN /\ GetErrorsBegin("request", pwePending)
                                /\ UNCHANGED <<t1end, receiverAlive>>
                           ELSE /\ Fail("io")
                                /\ UNCHANGED <<geCaller, geAcc, fetchWrites>>
                      /\ UNCHANGED <<prev_state, prompt, flashRes,
                                     promptsWrite>>
                 [] OTHER ->
                      /\ \E out \in {"ok", "io", "file", "flash", "write",
                                      "panic"} :
                           /\ out = "io" => msg.req \in IoRequests
                           /\ out = "file" => msg.req \in FileRequests
                           /\ out \in {"flash", "write"} => msg.req = "Update"
                           /\ out = "panic" => msg.req = "Script"
                           /\ CASE out = "ok" ->
                                     /\ t1pc' = "loop"
                                     /\ prompt' = PromptAfter(msg.req, prompt)
                                     /\ prev_state' =
                                            IF msg.req = "Tsp" THEN None
                                            ELSE prev_state
                                     /\ UNCHANGED <<t1end, receiverAlive>>
                                [] out = "panic" ->
                                     /\ t1pc' = "panicked"
                                     /\ t1end' = "panic"
                                     /\ receiverAlive' = FALSE
                                     /\ UNCHANGED <<prev_state, prompt>>
                                [] OTHER ->
                                     /\ Fail(error_kind(out))
                                     /\ UNCHANGED <<prev_state, prompt>>
                           /\ IF msg.req = "Update"
                              THEN /\ flashRes' = update_calls(out).flash
                                   /\ promptsWrite' = update_calls(out).write
                              ELSE UNCHANGED <<flashRes, promptsWrite>>
                      /\ UNCHANGED <<geCaller, geAcc, fetchWrites>>
       ELSE /\ IF senderAlive
               THEN \* TryRecvError::Empty
                    /\ t1pc' = "loop"
                    /\ UNCHANGED <<t1end, receiverAlive>>
               ELSE \* TryRecvError::Disconnected
                    /\ t1pc' = "join"
                    /\ t1end' = "disconnected"
                    /\ receiverAlive' = FALSE
            /\ UNCHANGED <<chan, handled, prev_state, prompt, geCaller, geAcc,
                           fetchWrites, flashRes, promptsWrite>>
    /\ sinceReq' = IF chan # <<>> /\ t1pc' \in {"loop", "get_errors"}
                   THEN since_request(ChanFront(chan).req, sinceReq)
                   ELSE sinceReq
    /\ UNCHANGED <<state, get_error, frameCount, lastPayload, geTick,
                   senderAlive, t2vars, nextId, exitSent,
                   pwePending, nodeActs, inNode, iterLog, smvars, cqvars,
                   tkvars, startupLog, t2line, endvars>>

\* repl.rs:338-340: drop(loop_in) was done on leaving the loop; join.join()
Join ==
    /\ t1pc = "join"
    /\ t2pc = "done"
    /\ t1pc' = "done"
    /\ UNCHANGED <<t1end, prev_state, state, prompt, get_error, frameCount,
                   lastPayload, geCaller, geAcc, geTick,
                   chanvars, t2vars, histvars, smvars, cqvars, tkvars,
                   lifevars>>

(***************************************************************************)
(* The launcher around Repl::start: kic main.rs:529-536, kic-visa          *)
(* main.rs:767-781, and Drop for Repl, repl.rs:823-831                     *)
(***************************************************************************)
\* what Drop::drop does with the result of the cleanup write when it
\* unwraps it
after_cleanup_unwrap(out) == IF out = "ok" THEN "dropped" ELSE "drop_panicked"

\* what Drop::drop does with the result of the cleanup write: `let _ =`,
\* repl.rs:825-829
after_cleanup(out) == "dropped"

\* the Repl goes out of scope once start has returned or panicked (kic
\* main.rs:529-536, kic-visa main.rs:776) and Drop::drop writes the cleanup
\* line, repl.rs:823-831
DropRepl ==
    /\ t1pc \in {"done", "failed", "panicked"}
    /\ replLife = "alive"
    /\ cleanupWrites' = cleanupWrites + 1
    /\ \E out \in {"ok", "err"} : replLife' = after_cleanup(out)
    /\ UNCHANGED <<t1vars, t2vars, chanvars, histvars, smvars, cqvars, tkvars,
                   startupLog, t2line, flashRes, promptsWrite, connectRet>>

\* what connect returns after Repl::start returned res: the error is logged
\* and Ok(()) is the value of the function, kic main.rs:531-535, kic-visa
\* main.rs:770-781
connect_result(res) == "Ok"

\* kic main.rs:531-536: connect returns to main
ConnectReturn ==
    /\ t1pc \in {"done", "failed"}
    /\ replLife = "dropped"
    /\ connectRet = "none"
    /\ connectRet' = connect_result(IF t1pc = "done" THEN "Ok" ELSE "Err")
    /\ UNCHANGED <<t1vars, t2vars, chanvars, histvars, smvars, cqvars, tkvars,
                   startupLog, t2line, flashRes, promptsWrite, replLife,
                   cleanupWrites>>

(***************************************************************************)
(* User-input thread: Repl::init_user_input, repl.rs:702-732               *)
(***************************************************************************)
\* repl.rs:714-716: read_line and parse_user_commands.  At end of file
\* read_line returns Ok(0) and leaves the line empty, every time it is called.
\* lines is the set of lines the user may type, max the number of requests
\* sent in one run.
T2ReadOn(lines, max) ==
    /\ t2pc = "read"
    /\ nextId <= max
    /\ \E out \in {"line", "eof", "io"} :
         CASE out = "line" ->
                /\ ~stdinEof
                /\ \E line \in lines :
                     /\ t2req' = parse_user_commands(line)
                     /\ t2line' = line
                /\ t2pc' = "send"
                /\ UNCHANGED <<stdinEof, senderAlive>>
           [] out = "eof" ->
                /\ stdinEof' = TRUE
                /\ t2req' = parse_user_commands("empty")
                /\ t2line' = "empty"
                /\ t2pc' = "send"
                /\ UNCHANGED senderAlive
           [] out = "io" ->
                /\ ~stdinEof
                /\ t2pc' = "done"
                /\ senderAlive' = FALSE
                /\ UNCHANGED <<t2req, t2line, stdinEof>>
    /\ UNCHANGED <<t1vars, chan, receiverAlive, histvars, smvars, cqvars, tkvars,
                   startupLog, flashRes, promptsWrite, endvars>>

\* where the input loop goes after a successful send when the check for
\* Request::Exit is left out
after_send_noexit(req) == "read"

\* where the input loop goes after a successful send, repl.rs:723-725
after_send(req) == IF req = "Exit" THEN "done" ELSE "read"

\* repl.rs:717-726: send, and the end of the loop on SendError or Exit
T2Send ==
    /\ t2pc = "send"
    /\ IF receiverAlive
       THEN /\ chan' = ChanPush(chan, [id |-> nextId, req |-> t2req])
            /\ nextId' = nextId + 1
            /\ exitSent' = (exitSent \/ t2req = "Exit")
            /\ t2pc' = after_send(t2req)
            /\ senderAlive' = (after_send(t2req) # "done")
       ELSE /\ t2pc' = "done"
            /\ senderAlive' = FALSE
            /\ UNCHANGED <<chan, nextId, exitSent>>
    /\ UNCHANGED <<t1vars, receiverAlive, t2req, stdinEof, handled, pwePending,
                   fetchWrites, nodeActs, inNode, iterLog, sinceReq, smvars,
                   cqvars, tkvars, lifevars>>

(***************************************************************************)
(* Specifications                                                          *)
(***************************************************************************)
\* the lines typed in the runs that explore the instrument side
FewLines == {"tsp", ".exit"}

\* the frames sent in the runs that explore the user side
FewKinds == {"Prompt"}

HandleFrame == HandleFrameOn(WireKinds)

T2Read == T2ReadOn(FewLines, MaxSendsFew)

HandleFrameFew == HandleFrameOn(FewKinds)

T2ReadAll == T2ReadOn(LineClasses, MaxSends)

T1Step ==
    \/ StartSpawn
    \/ StartupWrites
    \/ GetErrorsRead
    \/ ReadBegin
    \/ HandleFrame
    \/ HandleDataEnd
    \/ PrintPrompt
    \/ TryRecv
    \/ Join
    \/ DropRepl
    \/ ConnectReturn

Next ==
    \/ StartSpawn
    \/ StartupWrites
    \/ GetErrorsRead
    \/ ReadBegin
    \/ HandleFrame
    \/ HandleDataEnd
    \/ PrintPrompt
    \/ TryRecv
    \/ Join
    \/ DropRepl
    \/ ConnectReturn
    \/ T2Read
    \/ T2Send

\* the instrument answers with any frames, the user types few lines
Spec == Init /\ [][Next]_vars

\* both threads are scheduled; the input thread gets no line it is not given
FairSpec == Spec /\ WF_vars(T1Step) /\ WF_vars(T2Send)

NextInput ==
    \/ StartSpawn
    \/ StartupWrites
    \/ GetErrorsRead
    \/ ReadBegin
    \/ HandleFrameFew
    \/ HandleDataEnd
    \/ PrintPrompt
    \/ TryRecv
    \/ Join
    \/ DropRepl
    \/ ConnectReturn
    \/ T2ReadAll
    \/ T2Send

\* the user types any line, the instrument answers with prompts only
SpecInput == Init /\ [][NextInput]_vars

\* the lines of a user who sends code to the instrument and asks for help
AnswerLines == {"tsp", "file_path", ".upgrade file", ".help"}

\* the frames of an instrument that answers with text and prompts
AnswerKinds == {"Prompt", "PromptWithError", "Data"}

HandleFrameAnswer == HandleFrameOn(AnswerKinds)

T2ReadAnswer == T2ReadOn(AnswerLines, MaxSends)

NextAnswer ==
    \/ StartSpawn
    \/ StartupWrites
    \/ GetErrorsRead
    \/ ReadBegin
    \/ HandleFrameAnswer
    \/ HandleDataEnd
    \/ PrintPrompt
    \/ TryRecv
    \/ Join
    \/ DropRepl
    \/ ConnectReturn
    \/ T2ReadAnswer
    \/ T2Send

\* the user sends code and asks for help, the instrument answers with text
\* and prompts
SpecAnswer == Init /\ [][NextAnswer]_vars

\* one application of next_state to any state and any frame
SMInit ==
    /\ ReplInit
    /\ smState \in AllStates
    /\ smInput \in AllFrames
    /\ smResult = {}
    /\ smPrev = None
    /\ smAction = "NoFrame"
    /\ smCount = 0
    /\ CqIdle
    /\ TkIdle

SMApply ==
    /\ smResult = {}
    /\ smResult' = {next_state(smState, smInput)}
    /\ UNCHANGED <<t1vars, t2vars, chanvars, histvars, smState, smInput,
                   smPrev, smAction, smCount, cqvars, tkvars,
                   lifevars>>

SMNext == SMApply

SpecSM == SMInit /\ [][SMNext]_vars

\* the locals of start before the first frame, repl.rs:181-182: state is
\* None, and the frames threaded are those of instrument.rs
ThreadInit ==
    /\ ReplInit
    /\ smState = None
    /\ smInput = Frame("Prompt", 0)
    /\ smResult = {}
    /\ smPrev = None
    /\ smAction = "NoFrame"
    /\ smCount = 0
    /\ CqIdle
    /\ TkIdle

\* repl.rs:127-131: one frame of the for loop of handle_data, state machine
\* and action derivation only; a transition error ends the threading
SMThread ==
    /\ smCount < MaxThread
    /\ \A r \in smResult : r.ok
    /\ \E f \in FramesOf(WireKinds) :
         LET r == next_state(unwrap_or_default(smState), f)
         IN  /\ smInput' = f
             /\ smResult' = {r}
             /\ smPrev' = smState
             /\ smState' = IF r.ok THEN r.state ELSE smState
             /\ smAction' = IF r.ok THEN state_action(smState, r.state)
                            ELSE "NoFrame"
    /\ smCount' = smCount + 1
    /\ UNCHANGED <<t1vars, t2vars, chanvars, histvars, cqvars, tkvars,
                   lifevars>>

ThreadNext == SMThread

\* frames threaded from the initial state through next_state and state_action
SpecThread == ThreadInit /\ [][ThreadNext]_vars

(***************************************************************************)
(* clear_output_queue on its own, repl.rs:60-92                            *)
(***************************************************************************)
\* the timestamp written to the instrument, repl.rs:65, as two bytes
Timestamp == <<"t1", "t2">>

\* the bytes the instrument may answer with
ClearBytes == {"t1", "t2", NUL}

\* what one read may put into buf before its zero padding
Chunks == UNION {[1..n -> ClearBytes] : n \in 0..MaxChunk}

ClearInit ==
    /\ ReplInit
    /\ SmIdle
    /\ TkIdle
    /\ cqPc = "write"
    /\ cqAttempt = 0
    /\ cqDataReads = 0
    /\ accumulate = <<>>

\* repl.rs:65-72: the write of the timestamp and set_nonblocking
CqWrite ==
    /\ cqPc = "write"
    /\ \E out \in {"ok", "io"} :
         cqPc' = IF out = "ok" THEN "loop" ELSE "io"
    /\ UNCHANGED <<cqAttempt, cqDataReads, accumulate>>
    /\ UNCHANGED <<t1vars, t2vars, chanvars, histvars, smvars, tkvars,
                   lifevars>>

\* where the for loop stands after a turn that did not return, repl.rs:73, 88
after_turn(attempts) == IF attempts < MaxAttempts THEN "loop" ELSE "exhausted"

\* repl.rs:73-91: one turn of the for loop; after the last turn the function
\* returns the error "unable to clear instrument output queue"
CqAttempt ==
    /\ cqPc = "loop"
    /\ cqAttempt < MaxAttempts
    /\ cqAttempt' = cqAttempt + 1
    /\ \E out \in {"data", "wouldblock", "io"} :
         CASE out = "data" ->
                \E buf \in Chunks :
                  LET r == accumulate_and_search(accumulate, buf, Timestamp)
                  IN  /\ accumulate' = r.accumulator
                      /\ cqDataReads' = cqDataReads + 1
                      /\ cqPc' = IF r.found THEN "ok"
                                 ELSE after_turn(cqAttempt + 1)
           [] out = "wouldblock" ->
                \* sleep and continue: the turn is spent
                /\ cqPc' = after_turn(cqAttempt + 1)
                /\ UNCHANGED <<cqDataReads, accumulate>>
           [] out = "io" ->
                /\ cqPc' = "io"
                /\ UNCHANGED <<cqDataReads, accumulate>>
    /\ UNCHANGED <<t1vars, t2vars, chanvars, histvars, smvars, tkvars,
                   lifevars>>

ClearNext ==
    \/ CqWrite
    \/ CqAttempt

\* one call of clear_output_queue, the instrument answering with any bytes
SpecClear == ClearInit /\ [][ClearNext]_vars

(***************************************************************************)
(* The tokenizer at work: ResponseParser over a buffer, and the reads of   *)
(* the main loop feeding handle_data (repl.rs:212-215, 120-127)            *)
(***************************************************************************)
FixedKinds ==
    {"NodeStart", "NodeEnd", "Prompt", "PromptWithError", "TspErrorStart",
     "TspErrorEnd", "ProgressIndicator"}

\* the bytes the instrument sends for a frame
Wire(f) ==
    CASE f.kind = "NodeStart" -> NODE_START
      [] f.kind = "NodeEnd" -> NODE_END
      [] f.kind = "Prompt" -> TSP_PROMPT
      [] f.kind = "PromptWithError" -> TSP_ERROR_PROMPT
      [] f.kind = "TspErrorStart" -> ERM_START
      [] f.kind = "TspErrorEnd" -> ERM_DONE
      [] f.kind = "ProgressIndicator" -> PROGRESS
      [] f.kind = "TspError" -> ERM \o f.text
      [] f.kind = "Data" -> f.text

RECURSIVE ConcatWire(_)
ConcatWire(fs) ==
    IF fs = <<>> THEN <<>> ELSE Wire(Head(fs)) \o ConcatWire(Tail(fs))

\* the frames the instrument may send when the tokenizer is explored
TokItems ==
    {Parsed(k, <<>>) : k \in FixedKinds}
        \cup {Parsed("TspError", <<>>), Parsed("TspError", <<"x">>)}
        \cup {Parsed("Data", t) : t \in {<<"x">>, <<"\n">>, <<">">>, <<NUL>>, NBSP}}

\* the frames the instrument may send when the reads are explored
SplitItems ==
    {Parsed("Prompt", <<>>), Parsed("ProgressIndicator", <<>>),
     Parsed("Data", <<"x">>)}

SeqsUpTo(S, n) == UNION {[1..k -> S] : k \in 0..n}

\* ResponseParser::new over the whole buffer, instrument.rs:166-169
TokInit ==
    /\ ReplInit
    /\ SmIdle
    /\ CqIdle
    /\ tkSrc \in SeqsUpTo(TokItems, MaxPieces)
    /\ tkStream = <<>>
    /\ tkReads = 0
    /\ tkPc = "parse"
    /\ tkData = ConcatWire(tkSrc)
    /\ tkIn = <<>>
    /\ tkOut = "none"
    /\ tkFrames = <<>>

\* the instrument has sent the buffer and the main loop is at its read
SplitInit ==
    /\ ReplInit
    /\ SmIdle
    /\ CqIdle
    /\ tkSrc \in SeqsUpTo(SplitItems, MaxPieces)
    /\ tkStream = ConcatWire(tkSrc)
    /\ tkReads = 0
    /\ tkPc = IF tkStream = <<>> THEN "done" ELSE "read"
    /\ tkData = <<>>
    /\ tkIn = <<>>
    /\ tkOut = "none"
    /\ tkFrames = <<>>

\* after the frame loop: back to the read while bytes are left
after_frames(stream) == IF stream = <<>> THEN "done" ELSE "read"

\* repl.rs:212-215, 120-125: a read returns the next n bytes, handle_data
\* makes a new parser of exactly those bytes
TkRead ==
    /\ tkPc = "read"
    /\ tkReads < MaxReads
    /\ \E n \in 1..Len(tkStream) :
         /\ tkReads = MaxReads - 1 => n = Len(tkStream)
         /\ LET read_buf == SubSeq(tkStream, 1, n)
                left == SubSeq(tkStream, n + 1, Len(tkStream))
            IN  /\ tkStream' = left
                /\ IF has_data(read_buf)
                   THEN /\ tkData' = read_buf
                        /\ tkPc' = "parse"
                   ELSE /\ tkData' = <<>>
                        /\ tkPc' = after_frames(left)
    /\ tkReads' = tkReads + 1
    /\ UNCHANGED <<tkSrc, tkIn, tkOut, tkFrames>>
    /\ UNCHANGED <<t1vars, t2vars, chanvars, histvars, smvars, cqvars,
                   lifevars>>

\* repl.rs:127, instrument.rs:181-189: the for loop asks the parser for its
\* next frame
TkNext ==
    /\ tkPc = "parse"
    /\ tkIn' = tkData
    /\ LET r == parser_next(tkData)
       IN  IF r = {}
           THEN /\ tkOut' = "end"
                /\ tkPc' = after_frames(tkStream)
                /\ UNCHANGED <<tkData, tkFrames>>
           ELSE LET y == CHOOSE x \in r : TRUE
                IN  /\ tkOut' = "some"
                    /\ tkData' = y.data
                    /\ tkFrames' = Append(tkFrames, y.frame)
                    /\ UNCHANGED tkPc
    /\ UNCHANGED <<tkSrc, tkStream, tkReads>>
    /\ UNCHANGED <<t1vars, t2vars, chanvars, histvars, smvars, cqvars,
                   lifevars>>

\* instrument.rs:181-189: the parser is asked again after it returned None
TkNextAgain ==
    /\ tkPc = "done"
    /\ tkOut = "end"
    /\ tkIn' = tkData
    /\ LET r == parser_next(tkData)
       IN  IF r = {}
           THEN /\ tkOut' = "end_again"
                /\ UNCHANGED <<tkData, tkFrames>>
           ELSE LET y == CHOOSE x \in r : TRUE
                IN  /\ tkOut' = "some_after_end"
                    /\ tkData' = y.data
                    /\ tkFrames' = Append(tkFrames, y.frame)
    /\ UNCHANGED <<tkSrc, tkStream, tkReads, tkPc>>
    /\ UNCHANGED <<t1vars, t2vars, chanvars, histvars, smvars, cqvars,
                   lifevars>>

TokNext ==
    \/ TkNext
    \/ TkNextAgain

\* the tokenizer run to its end over any buffer
SpecTok == TokInit /\ [][TokNext]_vars

SplitNext ==
    \/ TkRead
    \/ TkNext

\* a buffer arriving over one or more reads of the main loop
SpecSplit == SplitInit /\ [][SplitNext]_vars

(***************************************************************************)
(* The transition table of the specification (section 4.2): Bot is an      *)
(* undefined pair, Self a pair that keeps the state.                       *)
(***************************************************************************)
Bot == "Bot"

Self == "Self"

TableRow(p, pe, es, e, ee, d, pi, ns, ne) ==
    [Prompt |-> p, PromptWithError |-> pe, TspErrorStart |-> es,
     TspError |-> e, TspErrorEnd |-> ee, Data |-> d, ProgressIndicator |-> pi,
     NodeStart |-> ns, NodeEnd |-> ne]

SpecTable ==
    [Init |->
        TableRow("DataReadEnd", "DataReadEndPendingError", "ErrorReadStart",
                 Bot, Bot, "TextDataReadStart", "FileLoading",
                 "NodeDataReadStart", Bot),
     TextDataReadStart |->
        TableRow("DataReadEnd", "DataReadEndPendingError", "ErrorReadStart",
                 Bot, Bot, "TextDataReadContinue", "FileLoading",
                 "NodeDataReadStart", Bot),
     TextDataReadContinue |->
        TableRow("DataReadEnd", "DataReadEndPendingError", Bot,
                 Bot, Bot, Self, "FileLoading", Bot, Bot),
     DataReadEnd |->
        TableRow(Self, "DataReadEndPendingError", "ErrorReadStart",
                 Bot, Bot, "TextDataReadStart", "FileLoading",
                 "NodeDataReadStart", Bot),
     DataReadEndPendingError |->
        TableRow("DataReadEnd", Self, "ErrorReadStart",
                 Bot, Bot, "TextDataReadStart", "FileLoading", Bot, Bot),
     ErrorReadStart |->
        TableRow(Bot, Bot, Bot, "ErrorReadContinue", "ErrorReadEnd", Bot,
                 "FileLoading", Bot, Bot),
     ErrorReadContinue |->
        TableRow(Bot, Bot, Bot, Self, "ErrorReadEnd", Bot,
                 "FileLoading", Bot, Bot),
     ErrorReadEnd |->
        TableRow("DataReadEnd", "DataReadEndPendingError", "ErrorReadStart",
                 Bot, Bot, "TextDataReadStart", "FileLoading", Bot, Bot),
     FileLoading |->
        TableRow("Init", "DataReadEndPendingError", "ErrorReadStart",
                 Bot, Bot, "TextDataReadStart", Self, Bot, Bot),
     NodeDataReadStart |->
        TableRow(Bot, Bot, Bot, Bot, Bot, "NodeDataReadContinue",
                 "FileLoading", Bot, "NodeDataReadEnd"),
     NodeDataReadContinue |->
        TableRow(Bot, Bot, Bot, Bot, Bot, Self,
                 "FileLoading", Bot, "NodeDataReadEnd"),
     NodeDataReadEnd |->
        TableRow("DataReadEnd", "DataReadEndPendingError", "ErrorReadStart",
                 Bot, Bot, "TextDataReadStart", "FileLoading",
                 "NodeDataReadStart", Bot)]

TableStates == DOMAIN SpecTable

InTable(s, f) == s \in TableStates /\ f.kind \in WireKinds

TableCell(s, f) == SpecTable[s][f.kind]

(***************************************************************************)
(* Claims                                                                  *)
(***************************************************************************)
\* C1: for every read state s and frame f that the transition table marks
\* undefined, next_state(s, f) is the StateMachineTransitionError carrying
\* exactly s and f, never a state.  (SpecSM)
C1_UndefinedPairIsError ==
    \A r \in smResult :
        (InTable(smState, smInput) /\ TableCell(smState, smInput) = Bot)
            => r = TransitionErr(smState, smInput)

\* next_state was applied to TextDataReadContinue and TspErrorStart, an
\* undefined pair, and returned the error
C1_Witness ==
    /\ smState = "TextDataReadContinue"
    /\ smInput.kind = "TspErrorStart"
    /\ smResult = {TransitionErr(smState, smInput)}

\* C2: for every pair (s, f) to which the transition table assigns a target,
\* next_state(s, f) returns exactly that target.  (SpecSM)
C2_DefinedPairIsTarget ==
    \A r \in smResult :
        (InTable(smState, smInput) /\ TableCell(smState, smInput) # Bot)
            => r = Ok(IF TableCell(smState, smInput) = Self THEN smState
                      ELSE TableCell(smState, smInput))

\* next_state was applied to FileLoading and Prompt and returned Init
C2_Witness ==
    /\ smState = "FileLoading"
    /\ smInput.kind = "Prompt"
    /\ smResult = {Ok("Init")}

\* C3: a frame with no transition from the current read state is logged and
\* the dispatch loop keeps running: a transition error never ends start.
C3_LoopSurvivesTransitionError ==
    t1end = "transition" => t1pc \notin {"failed", "done"}

\* C4: when the prompt is about to be written after a PromptWithError frame
\* brought the state to DataReadEndPendingError, print(_KIC.error_message())
\* has been written exactly once since that frame and the read state is
\* DataReadEnd; it is never written twice before that prompt.
C4_OneFetchBeforePrompt ==
    /\ fetchWrites <= 1
    /\ (t1pc = "prompt" /\ pwePending)
          => (prompt /\ fetchWrites = 1 /\ state = "DataReadEnd")

\* a read of two frames reached DataReadEndPendingError, the error fetch has
\* returned and the prompt is about to be written
C4_Witness ==
    /\ t1pc = "prompt"
    /\ prompt
    /\ pwePending
    /\ fetchWrites = 1
    /\ frameCount = 2
    /\ state = "DataReadEnd"

\* C5: GetNodeDetails is derived only for a frame after which the read state
\* is NodeDataReadStart or NodeDataReadContinue, and only after a NodeStart
\* frame with no NodeEnd frame since.
C5_NodeDetailsInsideCapture ==
    \A a \in nodeActs :
        /\ a.state \in {"NodeDataReadStart", "NodeDataReadContinue"}
        /\ a.inNode

\* GetNodeDetails was derived for a Data frame of a node capture
C5_Witness ==
    \E a \in nodeActs : a.state = "NodeDataReadContinue" /\ prev_state # None

\* C6: once the input thread has read end of file and dealt with that read,
\* it has closed the request channel.  (SpecInput)
C6_EofClosesChannel ==
    (stdinEof /\ t2pc \in {"read", "done"}) => ~senderAlive

\* C7: after Request::Exit is sent the input thread reads no more and ends;
\* the dispatcher has received every request sent when it handles Exit, and
\* when it observes Disconnected it has received every request sent and no
\* Exit was among them.  (SpecInput)
C7_ExitEndsInput ==
    /\ exitSent => (t2pc = "done" /\ ~senderAlive)
    /\ t1end = "exit" => (exitSent /\ Len(handled) = nextId - 1)
    /\ t1end = "disconnected" => (~exitSent /\ Len(handled) = nextId - 1)

\* the dispatcher handled a request and then the Exit sent after it
C7_Witness ==
    /\ exitSent
    /\ t1end = "exit"
    /\ Len(handled) = 2
    /\ t2pc = "done"

\* C8: the requests received by the dispatcher followed by the requests in
\* flight are the requests sent, each once, in the order sent.  (SpecInput)
C8_FifoExactlyOnce ==
    handled \o [i \in 1..Len(chan) |-> chan[i].id]
        = [i \in 1..(nextId - 1) |-> i]

\* two requests were in flight together and both have been received
C8_Witness ==
    /\ handled = <<1, 2>>
    /\ chan = <<>>

\* C9: a WouldBlock result of the instrument read never ends start with an
\* error.
C9_WouldBlockNotEscalated ==
    t1end # "wouldblock"

\* C10: the error fetch is bounded: whenever get_errors is reading, it
\* stops reading after finitely many reads.  (FairSpec)
C10_ErrorFetchEnds ==
    (t1pc = "get_errors") ~> (t1pc # "get_errors")

\* C11: clear_output_queue reads at most max_attempts times; it returns Ok
\* exactly when the bytes accumulated so far contain the timestamp and goes
\* on reading while they do not; it returns the error "unable to clear
\* instrument output queue" only after max_attempts turns without the
\* timestamp; it never returns Ok without the timestamp.  (SpecClear)
C11_ClearBoundedAndSound ==
    /\ cqAttempt <= MaxAttempts
    /\ cqDataReads <= cqAttempt
    /\ cqPc = "ok" => contains(accumulate, Timestamp)
    /\ cqPc = "loop" =>
          (~contains(accumulate, Timestamp) /\ cqAttempt < MaxAttempts)
    /\ cqPc = "exhausted" =>
          (~contains(accumulate, Timestamp) /\ cqAttempt = MaxAttempts)

\* the timestamp arrived split over two reads and the second read returned Ok
C11_Witness ==
    /\ cqPc = "ok"
    /\ cqDataReads = 2
    /\ accumulate = Timestamp

\* C12: a WouldBlock read does not spend an attempt: when clear_output_queue
\* gives up, max_attempts reads have returned data or zero bytes.
\* (SpecClear)
C12_WouldBlockKeepsAttempt ==
    cqPc = "exhausted" => cqDataReads = MaxAttempts

\* C13: an error record that is not valid JSON is dropped and the session
\* continues: it never makes start return an error.
C13_BadRecordDropped ==
    ~(t1pc = "failed" /\ t1end = "json")

\* C14: a failure to open or read the file of a Script or Update request is
\* caught by the dispatcher and the loop continues: it never makes start
\* return an error.  (SpecInput)
C14_FileFailureCaught ==
    ~(t1pc = "failed" /\ t1end = "file")

\* the frames of a sequence that are sentinels of fixed width
IsFixed(f) == f.kind \in FixedKinds

\* C15: when the instrument sends sentinels only, the frame loop gets
\* exactly their frames, however the bytes are split over the reads of the
\* main loop.  (SpecSplit)
C15_SplitSentinelIsOneFrame ==
    (tkPc = "done" /\ \A i \in 1..Len(tkSrc) : IsFixed(tkSrc[i]))
        => tkFrames = tkSrc

\* the sentinel table of the tokenizer: the sentinels of fixed width
FixedSentinels ==
    {[bytes |-> Wire(Parsed(k, <<>>)), kind |-> k] : k \in FixedKinds}

\* C16: for a buffer made of ASCII whitespace, then a sentinel of fixed
\* width, then a remainder r, one step of the tokenizer yields the frame of
\* that sentinel and leaves r with its leading ASCII whitespace trimmed.
\* (SpecTok)
C16_SentinelAfterWhitespace ==
    \A S \in FixedSentinels :
        (tkOut # "none" /\ starts_with(trim_ascii_start(tkIn), S.bytes))
            => /\ tkOut = "some"
               /\ tkFrames[Len(tkFrames)] = Parsed(S.kind, <<>>)
               /\ tkData = trim_ascii_start(
                              drop_first(trim_ascii_start(tkIn), Len(S.bytes)))

\* the sentinels of the wire vocabulary
WireSentinels ==
    {NODE_START, NODE_END, TSP_PROMPT, TSP_ERROR_PROMPT, ERM_START, ERM_DONE,
     ERM, PROGRESS}

\* a sentinel of the wire vocabulary occurs in b at offset p
SentinelAt(b, p) ==
    \E w \in WireSentinels : starts_with(SubSeq(b, p + 1, Len(b)), w)

\* the offset of the earliest sentinel in b, Len(b) when there is none
EarliestSentinel(b) ==
    LET occ == {p \in 0..(Len(b) - 1) : SentinelAt(b, p)}
    IN  IF occ = {} THEN Len(b) ELSE Min(occ)

\* C17: for a buffer that is not empty, does not begin with NUL and, after
\* its leading ASCII whitespace, does not begin with a sentinel, one step of
\* the tokenizer yields Data holding the bytes before the earliest sentinel
\* of the buffer (all of it when there is none) and leaves the buffer from
\* that sentinel on.  (SpecTok)
C17_DataUpToSentinel ==
    (/\ tkOut # "none"
     /\ tkIn # <<>>
     /\ tkIn[1] # NUL
     /\ ~SentinelAt(trim_ascii_start(tkIn), 0))
        => /\ tkOut = "some"
           /\ tkFrames[Len(tkFrames)] =
                 Parsed("Data", SubSeq(tkIn, 1, EarliestSentinel(tkIn)))
           /\ tkData = trim_ascii_start(
                          SubSeq(tkIn, EarliestSentinel(tkIn) + 1, Len(tkIn)))

\* C18: for a buffer beginning with ERM> and with neither ERM>START nor
\* ERM>DONE, one step of the tokenizer yields TspError(text), text being the
\* bytes after ERM> up to the next sentinel or the end of the buffer with
\* leading and trailing whitespace removed, and leaves the buffer from that
\* sentinel on.  (SpecTok)
C18_ErrorRecordText ==
    (/\ tkOut # "none"
     /\ starts_with(tkIn, ERM)
     /\ ~starts_with(tkIn, ERM_START)
     /\ ~starts_with(tkIn, ERM_DONE))
        => LET body == SubSeq(tkIn, 5, Len(tkIn))
               cut == EarliestSentinel(body)
           IN  /\ tkOut = "some"
               /\ tkFrames[Len(tkFrames)] =
                     Parsed("TspError", trim(SubSeq(body, 1, cut)))
               /\ tkData = SubSeq(body, cut + 1, Len(body))

\* the step took ERM>x\nTSP> and yielded TspError("x"), leaving TSP>
C18_Witness ==
    /\ tkIn = ERM \o <<"x", "\n">> \o TSP_PROMPT
    /\ tkOut = "some"
    /\ tkFrames = <<Parsed("TspError", <<"x">>)>>
    /\ tkData = TSP_PROMPT

\* a line feed, the ASCII whitespace of the buffers explored
IsSeparator(f) == f = Parsed("Data", <<"\n">>)

\* fs is a sequence of sentinels of fixed width, written back to back or
\* with ASCII whitespace between them
SentinelsSeparated(fs) ==
    /\ fs # <<>>
    /\ \A i \in 1..Len(fs) : IsFixed(fs[i]) \/ IsSeparator(fs[i])
    /\ IsFixed(fs[1])
    /\ IsFixed(fs[Len(fs)])

\* C19: for a buffer of sentinels of fixed width written back to back or
\* separated by ASCII whitespace, the tokenizer yields the frames of the
\* sentinels, one each and in order, and then no further frame.  (SpecTok)
C19_SentinelSequence ==
    (tkPc = "done" /\ SentinelsSeparated(tkSrc))
        => tkFrames = SelectSeq(tkSrc, IsFixed)

\* TSP>\n>>>> was tokenized to its end: Prompt, ProgressIndicator
C19_Witness ==
    /\ tkPc = "done"
    /\ tkSrc = <<Parsed("Prompt", <<>>), Parsed("Data", <<"\n">>),
                 Parsed("ProgressIndicator", <<>>)>>
    /\ tkFrames = <<Parsed("Prompt", <<>>), Parsed("ProgressIndicator", <<>>)>>

\* no payload of fs contains a sentinel
PayloadsSentinelFree(fs) ==
    \A i \in 1..Len(fs) :
        EarliestSentinel(fs[i].text) = Len(fs[i].text)

WireStart(fs, i) == Len(ConcatWire(SubSeq(fs, 1, i - 1)))

\* whitespace at the start or the end of t
EdgeWhitespace(t) == trim(t) # t

\* the frames the round trip can give back:
\*  (a) a Data payload is not empty and begins with neither NUL nor
\*      whitespace;
\*  (b) a TspError text has no whitespace at its start or its end;
\*  (c) no Data frame comes right after a Data or a TspError frame;
\*  (d) in the concatenation a sentinel occurs only where the wire form of
\*      a frame other than Data starts, and where a TspError starts neither
\*      ERM>START nor ERM>DONE occurs.
RoundTripSafe(fs) ==
    LET b == ConcatWire(fs)
        starts == {WireStart(fs, i) : i \in {j \in 1..Len(fs) :
                                               fs[j].kind # "Data"}}
    IN  /\ \A i \in 1..Len(fs) :
             /\ fs[i].kind = "Data" =>
                   /\ fs[i].text # <<>>
                   /\ fs[i].text[1] # NUL
                   /\ trim_start(fs[i].text) = fs[i].text
             /\ fs[i].kind = "TspError" =>
                   /\ ~EdgeWhitespace(fs[i].text)
                   /\ ~starts_with(SubSeq(b, WireStart(fs, i) + 1, Len(b)),
                                   ERM_START)
                   /\ ~starts_with(SubSeq(b, WireStart(fs, i) + 1, Len(b)),
                                   ERM_DONE)
             /\ (i > 1 /\ fs[i].kind = "Data") =>
                   fs[i - 1].kind \notin {"Data", "TspError"}
        /\ \A p \in 0..(Len(b) - 1) : SentinelAt(b, p) => p \in starts

WsBytes == AsciiWs \cup {NBSP[1], NBSP[2]}

\* c is b with some of its whitespace bytes left out
RECURSIVE WhitespaceDropped(_, _)
WhitespaceDropped(b, c) ==
    IF b = <<>> THEN c = <<>>
    ELSE \/ /\ c # <<>>
            /\ b[1] = c[1]
            /\ WhitespaceDropped(Tail(b), Tail(c))
         \/ /\ b[1] \in WsBytes
            /\ WhitespaceDropped(Tail(b), c)

\* b holds no NUL, the byte that ends the frames of a buffer
NulFree(b) == \A i \in 1..Len(b) : b[i] # NUL

\* C21: for a buffer b (here without NUL), the sentinel bytes and the
\* payload bytes of the frames yielded, concatenated in order, are b with
\* only whitespace left out; so their lengths add up to the length of b less
\* the whitespace trimmed.  (SpecTok)
C21_BytesConserved ==
    (tkPc = "done" /\ NulFree(ConcatWire(tkSrc)))
        => WhitespaceDropped(ConcatWire(tkSrc), ConcatWire(tkFrames))

\* C22: a call of the parser yields no frame exactly when its buffer is
\* empty or begins with NUL, and one frame otherwise; a call made after a
\* call that yielded no frame yields none either.  (SpecTok)
C22_NoneIffExhausted ==
    /\ tkOut \in {"some", "end"}
          => /\ (tkOut = "end") <=> (tkIn = <<>> \/ tkIn[1] = NUL)
             /\ tkOut = "some" => tkFrames # <<>>
    /\ tkOut # "some_after_end"
    /\ tkOut = "end_again" => (tkIn = <<>> \/ tkIn[1] = NUL)

\* TSP> NUL x: the Prompt frame, then no frame at the NUL, twice
C22_Witness ==
    /\ tkSrc = <<Parsed("Prompt", <<>>), Parsed("Data", <<NUL>>),
                 Parsed("Data", <<"x">>)>>
    /\ tkOut = "end_again"
    /\ tkData = <<NUL, "x">>
    /\ tkFrames = <<Parsed("Prompt", <<>>)>>

\* C23: the handler of Request::Update writes localnode.prompts=1 after
\* every call of flash_firmware, whatever the call returned.  (SpecInput)
C23_PromptsRestoredAfterFlash == flashRes # "none" => promptsWrite # "none"

\* start has returned or panicked
Torn == t1pc \in {"done", "failed", "panicked"}

\* C24: on every way out of start (Exit, disconnect, a propagated error, a
\* panic) the cleanup line is written exactly once, by Drop::drop; a failed
\* write is ignored, connect does not return before it, and after it the
\* dispatcher takes no step, so that it is the last write on the channel.
\* (SpecInput)
C24_CleanupOnceAndLast ==
    /\ [](/\ cleanupWrites <= 1
          /\ replLife # "drop_panicked"
          /\ (replLife = "dropped") <=> (cleanupWrites = 1)
          /\ cleanupWrites = 1 => Torn
          /\ connectRet # "none" => cleanupWrites = 1)
    /\ [][cleanupWrites = 1 =>
             UNCHANGED <<t1vars, fetchWrites, flashRes, promptsWrite,
                         cleanupWrites>>]_vars

\* the handler of .script panicked and the unwinding wrote the cleanup line
C24_Witness ==
    /\ t1pc = "panicked"
    /\ replLife = "dropped"
    /\ cleanupWrites = 1

\* start is in its startup sequence
InStartup ==
    \/ t1pc \in {"start", "clear", "script", "prompts", "errors"}
    \/ t1pc = "get_errors" /\ geCaller = "startup"

\* the four startup steps have run and succeeded
StartupDone == startupLog = <<"ok", "ok", "ok", "ok">>

\* C25: the startup steps run once and in the order clear, upload, enable
\* prompts, fetch errors; a step that fails is the last one run and start
\* fails; no request is handled and the prompt flag is not set before the
\* four steps have succeeded.  (Spec)
C25_StartupInOrder ==
    /\ Len(startupLog) <= Len(StartupSteps)
    /\ \A i \in 1..Len(StartupSteps) :
          t1pc = StartupSteps[i] => Len(startupLog) = i - 1
    /\ \A i \in 1..Len(startupLog) :
          startupLog[i] # "ok"
              => /\ i = Len(startupLog)
                 /\ t1pc = "failed"
    /\ InStartup => (handled = <<>> /\ ~prompt)
    /\ (~InStartup /\ t1pc # "failed") => StartupDone
    /\ (t1pc = "failed" /\ ~StartupDone) => (handled = <<>> /\ ~prompt)

\* the first request is handled after the four steps
C25_Witness ==
    /\ StartupDone
    /\ Len(handled) = 1
    /\ t1pc = "loop"

\* C26: when the dispatcher leaves its loop on Exit or on disconnect the
\* receiver is dropped before the join, and at the join the input thread
\* has already ended, so the join returns without a further line of stdin.
\* (Spec)
C26_JoinCompletes ==
    t1pc = "join"
        => /\ ~receiverAlive
           /\ t1end \in {"exit", "disconnected"}
           /\ t2pc = "done"

\* the loop was left on disconnect and the join returned
C26_Witness ==
    /\ t1pc = "done"
    /\ t1end = "disconnected"
    /\ t2pc = "done"

\* C27 as stated: for .script, .upgrade and .nodes a path that names no
\* file makes parse_user_commands return Usage.  (SpecInput)
C27_MissingPathIsUsage ==
    t2line \in {".script missing", ".upgrade missing", ".nodes missing"}
        => t2req = "Usage"

\* C27 as amended: for .script and .upgrade a path that names no file makes
\* parse_user_commands return Usage; .nodes returns TspLinkNodes whether
\* its path names a file or not.  (SpecInput)
C27_MissingInputIsUsage ==
    /\ t2line \in {".script missing", ".upgrade missing"} => t2req = "Usage"
    /\ t2line \in {".nodes path", ".nodes missing"} => t2req = "TspLinkNodes"

\* .upgrade with a path that names no file was parsed
C27_Witness ==
    /\ t2pc = "send"
    /\ t2line = ".upgrade missing"
    /\ t2req = "Usage"

\* C28: connect returns success only when start returned Ok, and an error
\* when start returned an error.  (Spec)
C28_ConnectTellsError ==
    connectRet # "none" => ((connectRet = "Ok") <=> (t1pc = "done"))

\* C29: a frame that brings the state to NodeDataReadContinue derives
\* GetNodeDetails, also from NodeDataReadContinue itself.  (Spec)
C29_NodeDataPersisted ==
    (t1pc = "frames" /\ frameCount > 0 /\ state = "NodeDataReadContinue")
        => \E a \in nodeActs : a.state = "NodeDataReadContinue"

\* the sources from which the table allows a transition into
\* TextDataReadStart or TextDataReadContinue
TextSources ==
    {"Init", "TextDataReadStart", "TextDataReadContinue", "DataReadEnd",
     "DataReadEndPendingError", "ErrorReadEnd", "FileLoading",
     "NodeDataReadEnd"}

\* C30: a frame that brings the state from one of TextSources to
\* TextDataReadStart or TextDataReadContinue derives PrintText.  (Spec)
C30_TextIsPrinted ==
    (/\ t1pc = "frames"
     /\ frameCount > 0
     /\ state \in {"TextDataReadStart", "TextDataReadContinue"}
     /\ prev_state \in TextSources)
        => state_action(prev_state, state) = "PrintText"

\* the last frame threaded was accepted by next_state
LastAccepted == smCount > 0 /\ \A r \in smResult : r.ok

C32_PromptIdempotent ==
    (smCount > 0 /\ smPrev = "DataReadEnd" /\ smInput.kind = "Prompt")
        => /\ smResult = {Ok("DataReadEnd")}
           /\ smState = "DataReadEnd"
           /\ smAction = "Prompt"

\* three prompts in a row from the start
C32_Witness ==
    /\ smCount = 3
    /\ smPrev = "DataReadEnd"
    /\ smInput.kind = "Prompt"
    /\ smState = "DataReadEnd"
    /\ smAction = "Prompt"

\* C33 as stated: a Prompt frame received in DataReadEnd moves the state to
\* Init.  (SpecThread)
C33_PromptResetsToInit ==
    (LastAccepted /\ smPrev = "DataReadEnd" /\ smInput.kind = "Prompt")
        => smState = "Init"

\* C33 as amended: a frame leaves the state Init only when it is a Prompt
\* received in FileLoading; a Prompt or a Data frame received in
\* DataReadEnd does not pass through Init, so the next cycle starts from
\* DataReadEnd.  (SpecThread)
C33_NoResetBetweenCycles ==
    LastAccepted
        => /\ smState = "Init"
                 => (smPrev = "FileLoading" /\ smInput.kind = "Prompt")
           /\ smPrev = "DataReadEnd" => smState # "Init"

\* a cycle ended in DataReadEnd and one more prompt arrived
C33_Witness ==
    /\ smCount = 2
    /\ smPrev = "DataReadEnd"
    /\ smInput.kind = "Prompt"
    /\ smResult = {Ok("DataReadEnd")}

\* C34: ErrorReadContinue and ErrorReadEnd are entered only from
\* ErrorReadStart or ErrorReadContinue, NodeDataReadContinue and
\* NodeDataReadEnd only from NodeDataReadStart or NodeDataReadContinue.
\* (SpecThread)
C34_EnteredFromPredecessor ==
    LastAccepted
        => /\ smState \in {"ErrorReadContinue", "ErrorReadEnd"}
                 => smPrev \in {"ErrorReadStart", "ErrorReadContinue"}
           /\ smState \in {"NodeDataReadContinue", "NodeDataReadEnd"}
                 => smPrev \in {"NodeDataReadStart", "NodeDataReadContinue"}

\* an error dump: start, record, end
C34_Witness ==
    /\ smCount = 3
    /\ smPrev = "ErrorReadContinue"
    /\ smInput.kind = "TspErrorEnd"
    /\ smState = "ErrorReadEnd"

\* the entries of iterLog with the given event
LogAt(ev) == {i \in 1..Len(iterLog) : iterLog[i].ev = ev}

\* C35: within one loop iteration the actions of the frames are applied in
\* the order of the frames, the error fetch follows the last frame, and the
\* prompt of the iteration is written only after the actions of all the
\* frames read and after the error fetch, when a frame asked for one
C35_PromptAfterActions ==
    /\ \A i \in LogAt("frame") : iterLog[i].n = i
    /\ \A i \in LogAt("end") : iterLog[i].n = i - 1
    /\ \A i \in LogAt("fetch") : i - 1 \in LogAt("end")
    /\ \A i \in LogAt("prompt") :
         /\ i = Len(iterLog)
         /\ LogAt("end") # {}
         /\ LogAt("frame") = 1..frameCount
         /\ get_error => LogAt("fetch") # {}

\* a prompt was written in an iteration that read two frames, one of them
\* asking for the error fetch
C35_Witness ==
    /\ LogAt("prompt") # {}
    /\ frameCount = 2
    /\ LogAt("fetch") # {}

\* C36: every call of the parser that yields a frame leaves a buffer strictly
\* shorter than the one it was given, a Data frame is never empty, and the
\* frames yielded are no more than the bytes of the buffer.  (SpecTok)
C36_TokenizingProgresses ==
    /\ tkOut = "some" =>
         /\ Len(tkData) < Len(tkIn)
         /\ (tkFrames[Len(tkFrames)].kind = "Data"
               => tkFrames[Len(tkFrames)].text # <<>>)
    /\ Len(tkFrames) + Len(tkData) <= Len(ConcatWire(tkSrc))

\* a sentinel, then text up to the next sentinel, which is left in the
\* buffer
C36_Witness ==
    /\ tkOut = "some"
    /\ Len(tkFrames) = 2
    /\ tkFrames[1].kind \in FixedKinds
    /\ tkFrames[2].kind = "Data"
    /\ tkData # <<>>
    /\ Len(tkData) < Len(tkIn)

\* C37: the bootstrap rule of state_action is used only for a frame handled
\* while no frame was accepted before: every frame's action is derived from
\* the state before the frame and the state after it, whatever prev_state
\* held, and the state never returns to None
C37_BootstrapOnlyFirst ==
    [][/\ (state # None => state' # None)
       /\ (t1pc = "frames" /\ frameCount' = frameCount + 1 =>
             /\ prev_state' = state
             /\ (t1end' # "transition" => state' # None)
             /\ (state' # state \/ t1pc' = "frames" =>
                   /\ prompt' = (prompt \/ state_action(state, state') = "Prompt")
                   /\ get_error' =
                        (get_error \/ state_action(state, state') = "GetError")))]_vars

\* a Tsp request had reset prev_state to None and a frame was handled after
\* it, from a state that is not None
C37_Witness ==
    /\ t2line = "tsp"
    /\ handled = <<1>>
    /\ t1end = "none"
    /\ t1pc = "frames"
    /\ frameCount = 1
    /\ prev_state # None

\* C38: a frame with no transition from the current state leaves the state
\* as it was before the frame, and no action is run for it
C38_ErrorKeepsState ==
    [][t1pc = "frames" /\ t1end' = "transition" =>
         /\ state' = state
         /\ prompt' = prompt
         /\ get_error' = get_error
         /\ nodeActs' = nodeActs
         /\ pwePending' = pwePending
         /\ iterLog' = iterLog
         /\ fetchWrites' = fetchWrites]_vars

\* a frame was refused in a state that a frame had set before
C38_Witness ==
    /\ t1end = "transition"
    /\ state \notin {None, "Init"}
    /\ frameCount = 2

\* C39: frames other than TspError in the text of an error fetch are
\* dropped: they do not make the fetch fail, nothing is run for them, and
\* get_errors leaves the read state as it is (handle_data sets it to
\* DataReadEnd once get_errors has returned, repl.rs:165)
C39_FetchDropsOtherFrames ==
    [][t1pc = "get_errors" =>
         /\ prev_state' = prev_state
         /\ nodeActs' = nodeActs
         /\ inNode' = inNode
         /\ get_error' = get_error
         /\ pwePending' = pwePending
         /\ (state' # state =>
               geCaller = "handle_data" /\ t1pc' = "prompt"
               /\ state' = "DataReadEnd")
         /\ (t1end' = "json" => \E i \in 1..Len(geAcc) : geAcc[i] = "bad")]_vars

\* an error fetch asked for by a frame returned with a frame that is not an
\* error record in its text
C39_Witness ==
    /\ \E i \in LogAt("fetched") : iterLog[i].n > 0
    /\ geCaller = "none"
    /\ t1pc = "prompt"
    /\ prompt
    /\ state = "DataReadEnd"

\* C40 as stated: after a Tsp, Script or Update request is handled the
\* prompt flag stays false until a frame derives Prompt or GetError
C40_NoPromptBeforeAnswer == sinceReq # "none" => ~prompt

\* C40: after a Tsp, Script or Update request is handled the prompt flag
\* stays false until a frame derives Prompt or GetError or a later request
\* sets the flag
C40_NoPromptUnlessRequested == sinceReq = "awaiting" => ~prompt

\* a whole loop iteration, with a frame whose action is None, has passed
\* since the request, and no prompt is due
C40_Witness ==
    /\ sinceReq = "awaiting"
    /\ t1pc = "recv"
    /\ LogAt("frame") # {}
    /\ handled # <<>>
    /\ ~prompt

====
